---- MODULE Spec2Model ----
(***************************************************************************)
(* A model of lockplane's schema loader (internal/schema/loader.go), its   *)
(* duplicate-table validators, the statement lowerer                       *)
(* (internal/schema/parser.go), the check pipeline                         *)
(* (internal/schema/checker.go) and the check command (cmd/check.go).      *)
(*                                                                         *)
(* Go strings are sequences of one-character strings, so that prefixes,    *)
(* suffixes, concatenation (fmt.Sprintf) and byte-wise order are computed  *)
(* and not assumed.  A Go pointer that may be nil is a sequence of length  *)
(* 0 (nil) or 1.                                                           *)
(***************************************************************************)
EXTENDS Integers, Sequences, FiniteSets, TLC

----------------------------------------------------------------------------
(* Bounds of the model.                                                    *)

\* Directory entries the test set-up may create.
MaxFiles == 2
\* Statements written into the schema files of the directory, in total.
MaxStmts == 3
\* Tables of a hand-built Schema given to the duplicate validators.
MaxTables == 4

----------------------------------------------------------------------------
(* Strings.                                                                *)

\* The printable ASCII characters in code order, from 32 (space) to 126
\* (code 96, the grave accent, is spelled GRAVE: no string of the model has it).
Printable ==
  <<" ","!","\"","#","$","%","&","'","(",")","*","+",",","-",".","/",
    "0","1","2","3","4","5","6","7","8","9",":",";","<","=",">","?",
    "@","A","B","C","D","E","F","G","H","I","J","K","L","M","N","O",
    "P","Q","R","S","T","U","V","W","X","Y","Z","[","\\","]","^","_",
    "GRAVE","a","b","c","d","e","f","g","h","i","j","k","l","m","n","o",
    "p","q","r","s","t","u","v","w","x","y","z","{","|","}","~">>

Chars == {Printable[i] : i \in 1..Len(Printable)} \cup {"\n"}

\* The byte value of a character.
Byte == [c \in Chars |->
           IF c = "\n" THEN 10
           ELSE 31 + (CHOOSE i \in 1..Len(Printable) : Printable[i] = c)]

\* unicode.ToLower on one ASCII character.
LowerChar == [c \in Chars |->
                IF Byte[c] >= 65 /\ Byte[c] <= 90
                  THEN Printable[Byte[c] + 32 - 31] ELSE c]

\* strings.ToLower
ToLower(s) == [i \in 1..Len(s) |-> LowerChar[s[i]]]

\* strings.HasSuffix
HasSuffix(s, suffix) ==
  /\ Len(s) >= Len(suffix)
  /\ SubSeq(s, Len(s) - Len(suffix) + 1, Len(s)) = suffix

\* Go's < on strings: byte-wise lexicographic order.
RECURSIVE StrLess(_, _)
StrLess(a, b) ==
  IF a = <<>> THEN b # <<>>
  ELSE IF b = <<>> THEN FALSE
  ELSE IF Byte[Head(a)] # Byte[Head(b)] THEN Byte[Head(a)] < Byte[Head(b)]
  ELSE StrLess(Tail(a), Tail(b))

\* The position of x in the sorted order of the set S of distinct strings.
Rank(x, S) == Cardinality({y \in S : StrLess(y, x)}) + 1

\* The strings of the set S in increasing order.
SortSet(S) == [k \in 1..Cardinality(S) |-> CHOOSE x \in S : Rank(x, S) = k]

\* A sort that compares the strings with their letters lower-cased.
SortStringsFoldingCase(list) ==
  LET S == {list[i] : i \in 1..Len(list)}
  IN  [k \in 1..Cardinality(S) |->
         CHOOSE x \in S :
           Cardinality({y \in S : StrLess(ToLower(y), ToLower(x))}) + 1 = k]

\* sort.Strings on a list of distinct strings.
SortStrings(list) == SortSet({list[i] : i \in 1..Len(list)})

\* strings.Join
RECURSIVE Join(_, _)
Join(parts, sep) ==
  IF parts = <<>> THEN <<>>
  ELSE IF Len(parts) = 1 THEN parts[1]
  ELSE parts[1] \o sep \o Join(Tail(parts), sep)

Digit == <<"0","1","2","3","4","5","6","7","8","9">>

\* fmt.Sprintf("%d", n)
RECURSIVE Itoa(_)
Itoa(n) ==
  IF n < 0 THEN <<"-">> \o Itoa(0 - n)
  ELSE IF n < 10 THEN <<Digit[n + 1]>>
  ELSE Itoa(n \div 10) \o <<Digit[(n % 10) + 1]>>

----------------------------------------------------------------------------
(* String literals of the program.                                         *)

\* the default schema name: 'public'
SPublic ==
  <<"p","u","b","l","i","c">>
\* the parser's catalog qualifier: 'pg_catalog'
SPgCatalog ==
  <<"p","g","_","c","a","t","a","l","o","g">>
\* the schema-file suffix: '.lp.sql'
SSuffix ==
  <<".","l","p",".","s","q","l">>
\* 'UNDEFINED_EXPRESSION'
SUndefinedExpression ==
  <<"U","N","D","E","F","I","N","E","D","_","E","X","P","R","E","S","S","I",
    "O","N">>
\* 'CREATE TABLE missing relation'
ECreateMissingRelation ==
  <<"C","R","E","A","T","E"," ","T","A","B","L","E"," ","m","i","s","s","i",
    "n","g"," ","r","e","l","a","t","i","o","n">>
\* 'ALTER TABLE missing relation'
EAlterMissingRelation ==
  <<"A","L","T","E","R"," ","T","A","B","L","E"," ","m","i","s","s","i","n",
    "g"," ","r","e","l","a","t","i","o","n">>
\* 'column missing name'
EColumnMissingName ==
  <<"c","o","l","u","m","n"," ","m","i","s","s","i","n","g"," ","n","a","m",
    "e">>
\* 'failed to parse CREATE TABLE: '
EFailedCreate ==
  <<"f","a","i","l","e","d"," ","t","o"," ","p","a","r","s","e"," ","C","R",
    "E","A","T","E"," ","T","A","B","L","E",":"," ">>
\* 'failed to parse ALTER TABLE: '
EFailedAlter ==
  <<"f","a","i","l","e","d"," ","t","o"," ","p","a","r","s","e"," ","A","L",
    "T","E","R"," ","T","A","B","L","E",":"," ">>
\* 'failed to parse SQL: '
EFailedSQL ==
  <<"f","a","i","l","e","d"," ","t","o"," ","p","a","r","s","e"," ","S","Q",
    "L",":"," ">>
\* 'failed to parse SQL DDL: '
EFailedDDL ==
  <<"f","a","i","l","e","d"," ","t","o"," ","p","a","r","s","e"," ","S","Q",
    "L"," ","D","D","L",":"," ">>
\* 'failed to read SQL file: '
EFailedRead ==
  <<"f","a","i","l","e","d"," ","t","o"," ","r","e","a","d"," ","S","Q","L",
    " ","f","i","l","e",":"," ">>
\* 'failed to read SQL file '
EFailedReadFile ==
  <<"f","a","i","l","e","d"," ","t","o"," ","r","e","a","d"," ","S","Q","L",
    " ","f","i","l","e"," ">>
\* 'failed to parse SQL file '
EFailedParseFile ==
  <<"f","a","i","l","e","d"," ","t","o"," ","p","a","r","s","e"," ","S","Q",
    "L"," ","f","i","l","e"," ">>
\* 'did not find .lp.sql file(s)'
EDidNotFind ==
  <<"d","i","d"," ","n","o","t"," ","f","i","n","d"," ",".","l","p",".","s",
    "q","l"," ","f","i","l","e","(","s",")">>
\* 'no .lp.sql files found in directory '
ENoFiles ==
  <<"n","o"," ",".","l","p",".","s","q","l"," ","f","i","l","e","s"," ","f",
    "o","u","n","d"," ","i","n"," ","d","i","r","e","c","t","o","r","y",
    " ">>
\* 'failed to read schema directory '
EFailedReadDir ==
  <<"f","a","i","l","e","d"," ","t","o"," ","r","e","a","d"," ","s","c","h",
    "e","m","a"," ","d","i","r","e","c","t","o","r","y"," ">>
\* 'table '
ETable ==
  <<"t","a","b","l","e"," ">>
\* ' is defined multiple times at: '
EMultipleAt ==
  <<" ","i","s"," ","d","e","f","i","n","e","d"," ","m","u","l","t","i","p",
    "l","e"," ","t","i","m","e","s"," ","a","t",":"," ">>
\* ' is defined multiple times'
EMultiple ==
  <<" ","i","s"," ","d","e","f","i","n","e","d"," ","m","u","l","t","i","p",
    "l","e"," ","t","i","m","e","s">>
\* 'line '
ELine ==
  <<"l","i","n","e"," ">>
\* 'Table '
DTable ==
  <<"T","a","b","l","e"," ">>
\* ' is defined multiple times (first occurrence)'
DFirst ==
  <<" ","i","s"," ","d","e","f","i","n","e","d"," ","m","u","l","t","i","p",
    "l","e"," ","t","i","m","e","s"," ","(","f","i","r","s","t"," ","o","c",
    "c","u","r","r","e","n","c","e",")">>
\* ' is already defined (duplicate definition)'
DDuplicate ==
  <<" ","i","s"," ","a","l","r","e","a","d","y"," ","d","e","f","i","n","e",
    "d"," ","(","d","u","p","l","i","c","a","t","e"," ","d","e","f","i","n",
    "i","t","i","o","n",")">>
\* the external parser's message for text it rejects: 'syntax error at or near "x"'
PgSyntaxError ==
  <<"s","y","n","t","a","x"," ","e","r","r","o","r"," ","a","t"," ","o","r",
    " ","n","e","a","r"," ","\"","x","\"">>
\* the operating system's message for a file that cannot be read: 'open '
OsOpen ==
  <<"o","p","e","n"," ">>
\* ': permission denied'
OsPermission ==
  <<":"," ","p","e","r","m","i","s","s","i","o","n"," ","d","e","n","i","e",
    "d">>
\* fmt.Sprintf("%q", s) for a string without quotes, backslashes or
\* unprintable characters.
Quote(s) == <<"\"">> \o s \o <<"\"">>

----------------------------------------------------------------------------
(* Type Normalizer (parser.go).                                            *)

\* typeMap: each pair is <<internal spelling, canonical name>>.
typeMap ==
  << <<<<"i","n","t","2">>,
       <<"s","m","a","l","l","i","n","t">>>>,   \* int2 -> smallint
     <<<<"i","n","t","4">>,
       <<"i","n","t","e","g","e","r">>>>,   \* int4 -> integer
     <<<<"i","n","t","8">>,
       <<"b","i","g","i","n","t">>>>,   \* int8 -> bigint
     <<<<"s","e","r","i","a","l">>,
       <<"s","e","r","i","a","l">>>>,   \* serial -> serial
     <<<<"s","e","r","i","a","l","2">>,
       <<"s","m","a","l","l","s","e","r","i","a","l">>>>,   \* serial2 -> smallserial
     <<<<"s","e","r","i","a","l","4">>,
       <<"s","e","r","i","a","l">>>>,   \* serial4 -> serial
     <<<<"s","e","r","i","a","l","8">>,
       <<"b","i","g","s","e","r","i","a","l">>>>,   \* serial8 -> bigserial
     <<<<"b","o","o","l">>,
       <<"b","o","o","l","e","a","n">>>>,   \* bool -> boolean
     <<<<"v","a","r","c","h","a","r">>,
       <<"v","a","r","c","h","a","r">>>>,   \* varchar -> varchar
     <<<<"b","p","c","h","a","r">>,
       <<"c","h","a","r">>>>,   \* bpchar -> char
     <<<<"f","l","o","a","t","4">>,
       <<"r","e","a","l">>>>,   \* float4 -> real
     <<<<"f","l","o","a","t","8">>,
       <<"d","o","u","b","l","e"," ","p","r","e","c","i","s","i","o","n">>>>,   \* float8 -> double precision
     <<<<"t","i","m","e","s","t","a","m","p">>,
       <<"t","i","m","e","s","t","a","m","p"," ","w","i","t","h","o","u","t"," ","t","i","m","e"," ","z","o","n","e">>>>,   \* timestamp -> timestamp without time zone
     <<<<"t","i","m","e","s","t","a","m","p","t","z">>,
       <<"t","i","m","e","s","t","a","m","p"," ","w","i","t","h"," ","t","i","m","e"," ","z","o","n","e">>>>,   \* timestamptz -> timestamp with time zone
     <<<<"t","i","m","e">>,
       <<"t","i","m","e"," ","w","i","t","h","o","u","t"," ","t","i","m","e"," ","z","o","n","e">>>>,   \* time -> time without time zone
     <<<<"t","i","m","e","t","z">>,
       <<"t","i","m","e"," ","w","i","t","h"," ","t","i","m","e"," ","z","o","n","e">>>>,   \* timetz -> time with time zone
     <<<<"t","e","x","t">>,
       <<"t","e","x","t">>>>,   \* text -> text
     <<<<"n","u","m","e","r","i","c">>,
       <<"n","u","m","e","r","i","c">>>>,   \* numeric -> numeric
     <<<<"d","e","c","i","m","a","l">>,
       <<"d","e","c","i","m","a","l">>>> >>   \* decimal -> decimal
\* A lookup that returns, for a key, the internal spelling that follows it
\* in the table.
normalizeToNextKey(pgType) ==
  LET hits == {i \in 1..Len(typeMap) : typeMap[i][1] = ToLower(pgType)}
  IN  IF hits # {}
        THEN typeMap[((CHOOSE i \in hits : TRUE) % Len(typeMap)) + 1][1]
        ELSE pgType

\* A lookup of the name as it was given, in its own letter case.
normalizeExactCase(pgType) ==
  LET hits == {i \in 1..Len(typeMap) : typeMap[i][1] = pgType}
  IN  IF hits # {} THEN typeMap[CHOOSE i \in hits : TRUE][2] ELSE pgType

\* normalizePostgreSQLType: a lookup of the lower-cased name; a name that is
\* not a key is returned as it was given.
normalizePostgreSQLType(pgType) ==
  LET hits == {i \in 1..Len(typeMap) : typeMap[i][1] = ToLower(pgType)}
  IN  IF hits # {} THEN typeMap[CHOOSE i \in hits : TRUE][2] ELSE pgType

----------------------------------------------------------------------------
(* Expression Formatter (parser.go).                                       *)
(* A node is a record with a field "node": "nil" (a nil *Node), "AConst",  *)
(* "FuncCall", "TypeCast", "SqlvalueFunction", or "other" (any other       *)
(* kind).  An AConst has "tag", the member of its value that is set:       *)
(* "ival", "fval", "sval", "bsval", "boolval" or "none".                   *)

\* The keyword of each SVFOp operation code, 1 to 15.
SqlValueKeyword ==
  << <<"C","U","R","R","E","N","T","_","D","A","T","E">>,   \* 1: CURRENT_DATE
     <<"C","U","R","R","E","N","T","_","T","I","M","E">>,   \* 2: CURRENT_TIME
     <<"C","U","R","R","E","N","T","_","T","I","M","E">>,   \* 3: CURRENT_TIME
     <<"C","U","R","R","E","N","T","_","T","I","M","E","S","T","A","M","P">>,   \* 4: CURRENT_TIMESTAMP
     <<"C","U","R","R","E","N","T","_","T","I","M","E","S","T","A","M","P">>,   \* 5: CURRENT_TIMESTAMP
     <<"L","O","C","A","L","T","I","M","E">>,   \* 6: LOCALTIME
     <<"L","O","C","A","L","T","I","M","E">>,   \* 7: LOCALTIME
     <<"L","O","C","A","L","T","I","M","E","S","T","A","M","P">>,   \* 8: LOCALTIMESTAMP
     <<"L","O","C","A","L","T","I","M","E","S","T","A","M","P">>,   \* 9: LOCALTIMESTAMP
     <<"C","U","R","R","E","N","T","_","R","O","L","E">>,   \* 10: CURRENT_ROLE
     <<"C","U","R","R","E","N","T","_","U","S","E","R">>,   \* 11: CURRENT_USER
     <<"U","S","E","R">>,   \* 12: USER
     <<"S","E","S","S","I","O","N","_","U","S","E","R">>,   \* 13: SESSION_USER
     <<"C","U","R","R","E","N","T","_","C","A","T","A","L","O","G">>,   \* 14: CURRENT_CATALOG
     <<"C","U","R","R","E","N","T","_","S","C","H","E","M","A">> >>   \* 15: CURRENT_SCHEMA
\* formatExpr
RECURSIVE formatExpr(_)
RECURSIVE formatArgs(_)
formatArgs(args) ==
  IF args = <<>> THEN <<>>
  ELSE <<formatExpr(Head(args))>> \o formatArgs(Tail(args))

formatExpr(n) ==
  IF n.node = "nil" THEN <<>>
  ELSE IF n.node = "AConst" THEN
         IF n.tag = "ival" THEN Itoa(n.ival)
         ELSE IF n.tag = "fval" THEN n.sval
         ELSE IF n.tag = "sval" THEN <<"'">> \o n.sval \o <<"'">>
         ELSE IF n.tag = "bsval" THEN n.sval
         ELSE IF n.tag = "boolval"
           THEN (IF n.boolval THEN <<"t","r","u","e">>
                 ELSE <<"f","a","l","s","e">>)
         ELSE IF n.isnull THEN <<"N","U","L","L">>
         ELSE SUndefinedExpression
  ELSE IF n.node = "FuncCall" THEN
         IF Len(n.Funcname) > 0 /\ n.Funcname[1].isString
           THEN LET args == formatArgs(n.Args)
                IN  IF Len(args) > 0
                      THEN n.Funcname[1].Sval \o <<"(">>
                             \o Join(args, <<",", " ">>) \o <<")">>
                      ELSE n.Funcname[1].Sval \o <<"(", ")">>
           ELSE SUndefinedExpression
  ELSE IF n.node = "TypeCast" THEN
         IF n.Arg.node # "nil" THEN formatExpr(n.Arg)
         ELSE SUndefinedExpression
  ELSE IF n.node = "SqlvalueFunction" THEN
         IF n.Op >= 1 /\ n.Op <= Len(SqlValueKeyword)
           THEN SqlValueKeyword[n.Op] ELSE SUndefinedExpression
  ELSE SUndefinedExpression

----------------------------------------------------------------------------
(* Statement Lowerer (parser.go).                                          *)
(* An error is a record [text, segs]: text is what Error() returns; segs   *)
(* is empty except for a duplicate-table error, where it keeps the         *)
(* messages the validator joined into the text.  A result is a record      *)
(* [err, val] with err of length 0 (nil) or 1.                             *)

Err(text) == [text |-> text, segs |-> <<>>]
\* fmt.Errorf(prefix + "%w", e)
Wrap(prefix, e) == [e EXCEPT !.text = prefix \o e.text]
Ok(v) == [err |-> <<>>, val |-> v]
Fail(e) == [err |-> <<e>>, val |-> <<>>]

\* Go's "x, err := f(); if err != nil { return OnErr(err) }; OnOk(x)".
Try(r, OnErr(_), OnOk(_)) ==
  IF r.err # <<>> THEN OnErr(r.err[1]) ELSE OnOk(r.val)

\* A resolver that takes every offset as it comes, also one outside the
\* text.
byteOffsetUnchecked(sql, offset) ==
  LET walk[i \in 0..Len(sql)] ==
        IF i = 0 THEN <<1, 1>>
        ELSE IF sql[i] = "\n" THEN <<walk[i - 1][1] + 1, 1>>
        ELSE <<walk[i - 1][1], walk[i - 1][2] + 1>>
  IN  IF offset < 0 THEN <<1, 1 + offset>>
      ELSE IF offset > Len(sql)
        THEN <<walk[Len(sql)][1], walk[Len(sql)][2] + (offset - Len(sql))>>
      ELSE walk[offset]

\* byteOffsetToLineColumn: the scan of sql[0 .. offset-1], from byte i
\* (0-based) with the line and column reached so far.
RECURSIVE scanLineColumn(_, _, _, _, _)
scanLineColumn(sql, offset, i, line, column) ==
  IF i >= offset THEN <<line, column>>
  ELSE IF sql[i + 1] = "\n"
    THEN scanLineColumn(sql, offset, i + 1, line + 1, 1)
    ELSE scanLineColumn(sql, offset, i + 1, line, column + 1)

byteOffsetToLineColumn(sql, offset) ==
  IF offset < 0 \/ offset > Len(sql) THEN <<1, 1>>
  ELSE scanLineColumn(sql, offset, 0, 1, 1)

\* A rendering that joins every name part, the catalog qualifier too.
formatTypeNameQualified(typeName) ==
  LET strs == SelectSeq(typeName.Names, LAMBDA n : n.isString)
      ints == SelectSeq(typeName.Typmods,
                LAMBDA m : m.node = "AConst" /\ m.tag = "ival")
      norm == normalizePostgreSQLType(
                Join([i \in 1..Len(strs) |-> strs[i].Sval], <<".">>))
      mods == IF Len(ints) > 0
                THEN <<"(">>
                       \o Join([i \in 1..Len(ints) |-> Itoa(ints[i].ival)],
                               <<",">>)
                       \o <<")">>
                ELSE <<>>
  IN  IF Len(typeName.Names) = 0 THEN <<>>
      ELSE norm \o mods
             \o (IF typeName.ArrayBounds > 0 THEN <<"[", "]">> ELSE <<>>)

\* formatTypeName.  A TypeName is [Names, Typmods, ArrayBounds]: Names a
\* list of [isString, Sval], Typmods a list of nodes, ArrayBounds the
\* number of array bounds.
typeNameParts(names) ==
  SelectSeq(names, LAMBDA n : n.isString)

typeModStrings(typmods) ==
  LET ints == SelectSeq(typmods,
                LAMBDA m : m.node = "AConst" /\ m.tag = "ival")
  IN  [i \in 1..Len(ints) |-> Itoa(ints[i].ival)]

formatTypeName(typeName) ==
  IF Len(typeName.Names) = 0 THEN <<>>
  ELSE
    LET strs    == typeNameParts(typeName.Names)
        parts   == [i \in 1..Len(strs) |-> strs[i].Sval]
        rawBase == Join(parts, <<".">>)
        base    == IF Len(parts) > 1 /\ parts[1] = SPgCatalog
                     THEN parts[Len(parts)] ELSE rawBase
        norm    == normalizePostgreSQLType(base)
        mods    == typeModStrings(typeName.Typmods)
        withMod == IF Len(typeName.Typmods) > 0 /\ Len(mods) > 0
                     THEN norm \o <<"(">> \o Join(mods, <<",">>) \o <<")">>
                     ELSE norm
    IN  IF typeName.ArrayBounds > 0 THEN withMod \o <<"[", "]">> ELSE withMod

\* A constraint step in which NULL leaves a primary-key column alone.
parseColumnConstraintKeyFirm(col, constraint) ==
  IF constraint.Contype = "CONSTR_NOTNULL" THEN [col EXCEPT !.Nullable = FALSE]
  ELSE IF constraint.Contype = "CONSTR_NULL"
    THEN [col EXCEPT !.Nullable = ~col.IsPrimaryKey]
  ELSE IF constraint.Contype = "CONSTR_DEFAULT" THEN
         IF constraint.RawExpr.node # "nil"
           THEN [col EXCEPT !.Default = <<formatExpr(constraint.RawExpr)>>]
           ELSE col
  ELSE IF constraint.Contype = "CONSTR_PRIMARY"
    THEN [col EXCEPT !.IsPrimaryKey = TRUE, !.Nullable = FALSE]
  ELSE col

\* parseColumnConstraint: the column after one constraint [Contype, RawExpr].
parseColumnConstraint(col, constraint) ==
  IF constraint.Contype = "CONSTR_NOTNULL" THEN [col EXCEPT !.Nullable = FALSE]
  ELSE IF constraint.Contype = "CONSTR_NULL" THEN [col EXCEPT !.Nullable = TRUE]
  ELSE IF constraint.Contype = "CONSTR_DEFAULT" THEN
         IF constraint.RawExpr.node # "nil"
           THEN [col EXCEPT !.Default = <<formatExpr(constraint.RawExpr)>>]
           ELSE col
  ELSE IF constraint.Contype = "CONSTR_PRIMARY"
    THEN [col EXCEPT !.IsPrimaryKey = TRUE, !.Nullable = FALSE]
  ELSE col

RECURSIVE applyConstraints(_, _)
applyConstraints(col, constraints) ==
  IF constraints = <<>> THEN col
  ELSE LET c == Head(constraints)
       IN  applyConstraints(
             IF c.node = "Constraint" THEN parseColumnConstraint(col, c)
             ELSE col,
             Tail(constraints))

\* parseColumnDef.  A ColumnDef is [node, Colname, TypeName, Constraints],
\* TypeName of length 0 (nil) or 1.
parseColumnDef(colDef) ==
  IF colDef.Colname = <<>> THEN Fail(Err(EColumnMissingName))
  ELSE
    LET col == [Name         |-> colDef.Colname,
                Type         |-> IF Len(colDef.TypeName) > 0
                                   THEN formatTypeName(colDef.TypeName[1])
                                   ELSE <<>>,
                Nullable     |-> TRUE,
                IsPrimaryKey |-> FALSE,
                Default      |-> <<>>]
    IN  Ok(applyConstraints(col, colDef.Constraints))

\* The loop of parseCreateTable over stmt.TableElts: the columns lowered
\* so far, or the first error.
RECURSIVE parseTableElts(_, _)
parseTableElts(elts, columns) ==
  IF elts = <<>> THEN Ok(columns)
  ELSE IF Head(elts).node = "ColumnDef" THEN
         Try(parseColumnDef(Head(elts)),
             LAMBDA e : Fail(e),
             LAMBDA col : parseTableElts(Tail(elts), Append(columns, col)))
  ELSE parseTableElts(Tail(elts), columns)

\* A Table whose source location names no file.
NewTableWithoutFile(stmt, ctx, lc, columns) ==
  [Name           |-> stmt.Relname,
   Schema         |-> stmt.Schemaname,
   Columns        |-> columns,
   RLSEnabled     |-> FALSE,
   SourceLocation |-> <<[File   |-> <<>>,
                         Line   |-> lc[1],
                         Column |-> lc[2]]>>]

\* A Table that stores "public" for a statement without a qualifier.
NewTableInPublic(stmt, ctx, lc, columns) ==
  [Name           |-> stmt.Relname,
   Schema         |-> IF stmt.Schemaname = <<>> THEN SPublic
                      ELSE stmt.Schemaname,
   Columns        |-> columns,
   RLSEnabled     |-> FALSE,
   SourceLocation |-> <<[File   |-> ctx.filename,
                         Line   |-> lc[1],
                         Column |-> lc[2]]>>]

\* The Table parseCreateTable builds, given its line and column.
NewTable(stmt, ctx, lc, columns) ==
  [Name           |-> stmt.Relname,
   Schema         |-> stmt.Schemaname,
   Columns        |-> columns,
   RLSEnabled     |-> FALSE,
   SourceLocation |-> <<[File   |-> ctx.filename,
                         Line   |-> lc[1],
                         Column |-> lc[2]]>>]

\* parseCreateTable.  ctx is [sql, filename].
parseCreateTable(stmt, ctx, stmtLocation) ==
  IF ~stmt.hasRelation THEN Fail(Err(ECreateMissingRelation))
  ELSE Try(parseTableElts(stmt.TableElts, <<>>),
           LAMBDA e : Fail(e),
           LAMBDA columns :
             Ok(NewTable(stmt, ctx,
                         byteOffsetToLineColumn(ctx.sql, stmtLocation),
                         columns)))

\* The schema of a table as it is written, an empty one left empty.
SchemaAsWritten(s) == s

\* The schema a table is compared under: "public" when it has none.
EffectiveSchema(s) == IF s = <<>> THEN SPublic ELSE s

\* A loop over stmt.Cmds that stops at its first ENABLE or DISABLE.
RECURSIVE applyFirstAlterCmd(_, _)
applyFirstAlterCmd(table, cmds) ==
  IF cmds = <<>> THEN table
  ELSE LET c == Head(cmds)
       IN  IF c.node = "AlterTableCmd"
                /\ c.Subtype = "AT_EnableRowSecurity"
             THEN [table EXCEPT !.RLSEnabled = TRUE]
           ELSE IF c.node = "AlterTableCmd"
                     /\ c.Subtype = "AT_DisableRowSecurity"
             THEN [table EXCEPT !.RLSEnabled = FALSE]
           ELSE applyFirstAlterCmd(table, Tail(cmds))

\* The loop of parseAlterTable over stmt.Cmds on the table at tableIndex.
RECURSIVE applyAlterCmds(_, _)
applyAlterCmds(table, cmds) ==
  IF cmds = <<>> THEN table
  ELSE LET c == Head(cmds)
       IN  applyAlterCmds(
             IF c.node = "AlterTableCmd"
                  /\ c.Subtype = "AT_EnableRowSecurity"
               THEN [table EXCEPT !.RLSEnabled = TRUE]
             ELSE IF c.node = "AlterTableCmd"
                       /\ c.Subtype = "AT_DisableRowSecurity"
               THEN [table EXCEPT !.RLSEnabled = FALSE]
             ELSE table,
             Tail(cmds))

\* An ALTER TABLE that is applied to every table it matches.
parseAlterTableEveryMatch(tables, stmt) ==
  IF ~stmt.hasRelation THEN Fail(Err(EAlterMissingRelation))
  ELSE
    Ok([i \in 1..Len(tables) |->
          IF /\ tables[i].Name = stmt.Relname
             /\ EffectiveSchema(tables[i].Schema)
                  = EffectiveSchema(stmt.Schemaname)
            THEN applyAlterCmds(tables[i], stmt.Cmds)
            ELSE tables[i]])

\* parseAlterTable on the tables lowered so far.
parseAlterTable(tables, stmt) ==
  IF ~stmt.hasRelation THEN Fail(Err(EAlterMissingRelation))
  ELSE
    LET tableSchema == EffectiveSchema(stmt.Schemaname)
        matches == {i \in 1..Len(tables) :
                      /\ tables[i].Name = stmt.Relname
                      /\ EffectiveSchema(tables[i].Schema) = tableSchema}
    IN  IF matches = {} THEN Ok(tables)
        ELSE LET tableIndex == CHOOSE i \in matches :
                                 \A j \in matches : i <= j
             IN  Ok([tables EXCEPT
                       ![tableIndex] = applyAlterCmds(@, stmt.Cmds)])

----------------------------------------------------------------------------
(* The external parser and the file system, at their boundary.             *)
(* The text of a schema file is the list of the items written into it,     *)
(* each occupying the three bytes "S;\n".  An item is a statement the      *)
(* parser accepts or [kind |-> "garbage"], text the parser rejects.        *)

RECURSIVE SqlText(_)
SqlText(items) ==
  IF items = <<>> THEN <<>> ELSE <<"S", ";", "\n">> \o SqlText(Tail(items))

\* pg_query.Parse: fails on the whole text when any of it is rejected;
\* else each statement with its StmtLocation, which is 0 for the first and
\* the byte after the previous statement's semicolon for the others.
PgQueryParse(items) ==
  IF \E i \in 1..Len(items) : items[i].kind = "garbage"
    THEN Fail(Err(PgSyntaxError))
    ELSE Ok([i \in 1..Len(items) |->
               [stmt |-> items[i],
                StmtLocation |-> IF i = 1 THEN 0 ELSE 3 * (i - 1) - 1]])

\* A loop that puts the table of a CREATE TABLE before the tables lowered
\* so far.
RECURSIVE lowerTreePrepending(_, _, _)
lowerTreePrepending(tree, ctx, tables) ==
  IF tree = <<>> THEN Ok(tables)
  ELSE IF Head(tree).stmt.kind = "create" THEN
    Try(parseCreateTable(Head(tree).stmt, ctx, Head(tree).StmtLocation),
        LAMBDA e : Fail(Wrap(EFailedCreate, e)),
        LAMBDA table :
          lowerTreePrepending(Tail(tree), ctx, <<table>> \o tables))
  ELSE IF Head(tree).stmt.kind = "alter" THEN
    Try(parseAlterTable(tables, Head(tree).stmt),
        LAMBDA e : Fail(Wrap(EFailedAlter, e)),
        LAMBDA altered : lowerTreePrepending(Tail(tree), ctx, altered))
  ELSE lowerTreePrepending(Tail(tree), ctx, tables)

\* parsePostgresSQLSchemaWithFilename (ParseSQLSchemaWithDialectAndFilename
\* with the PostgreSQL dialect): the tables of the schema, or an error.
RECURSIVE lowerTree(_, _, _)
lowerTree(tree, ctx, tables) ==
  IF tree = <<>> THEN Ok(tables)
  ELSE IF Head(tree).stmt.kind = "create" THEN
    Try(parseCreateTable(Head(tree).stmt, ctx, Head(tree).StmtLocation),
        LAMBDA e : Fail(Wrap(EFailedCreate, e)),
        LAMBDA table : lowerTree(Tail(tree), ctx, Append(tables, table)))
  ELSE IF Head(tree).stmt.kind = "alter" THEN
    Try(parseAlterTable(tables, Head(tree).stmt),
        LAMBDA e : Fail(Wrap(EFailedAlter, e)),
        LAMBDA altered : lowerTree(Tail(tree), ctx, altered))
  ELSE lowerTree(Tail(tree), ctx, tables)

parsePostgresSQLSchemaWithFilename(items, filename) ==
  Try(PgQueryParse(items),
      LAMBDA e : Fail(Wrap(EFailedSQL, e)),
      LAMBDA tree :
        lowerTree(tree, [sql |-> SqlText(items), filename |-> filename],
                  <<>>))

----------------------------------------------------------------------------
(* Duplicate Validator (loader.go).                                        *)
(* Both forms range over a Go map, whose iteration order is not fixed:     *)
(* ord is a list without repetition that holds every key of the map, and   *)
(* the map is ranged over in the order its keys have in ord.               *)

\* A key made of the table name alone.
KeyByName(table) == table.Name

\* fmt.Sprintf("%s.%s", tableSchema, table.Name)
TableKey(table) == EffectiveSchema(table.Schema) \o <<".">> \o table.Name

\* The map seen: its keys, and for a key the indices of its tables in
\* increasing order (info.indices).
SeenKeys(tables) == {TableKey(tables[i]) : i \in 1..Len(tables)}

RECURSIVE IndicesFrom(_, _, _)
IndicesFrom(tables, key, i) ==
  IF i > Len(tables) THEN <<>>
  ELSE (IF TableKey(tables[i]) = key THEN <<i>> ELSE <<>>)
         \o IndicesFrom(tables, key, i + 1)

SeenIndices(tables, key) == IndicesFrom(tables, key, 1)

\* The keys of the map in the order of one range over it.
RangeOrder(tables, ord) ==
  SelectSeq(ord, LAMBDA k : k \in SeenKeys(tables))

RECURSIVE Flatten(_)
Flatten(lists) ==
  IF lists = <<>> THEN <<>> ELSE Head(lists) \o Flatten(Tail(lists))

\* The diagnostic of the i-th occurrence (1-based) of key, the table at idx.
DuplicateDiagnostic(tables, key, i, idx) ==
  LET table == tables[idx]
      loc   == table.SourceLocation
  IN  [Message  |-> IF i = 1 THEN DTable \o Quote(key) \o DFirst
                    ELSE DTable \o Quote(key) \o DDuplicate,
       Severity |-> "error",
       File     |-> IF loc # <<>> /\ loc[1].File # <<>>
                      THEN loc[1].File ELSE <<>>,
       Line     |-> IF loc # <<>> THEN loc[1].Line ELSE 1,
       Column   |-> IF loc # <<>> THEN loc[1].Column ELSE 1]

\* A diagnostics form that reports a key from its third table on.
ValidateTriplicatesAsDiagnostics(tables, ord) ==
  LET keys == RangeOrder(tables, ord)
      ForKey(key) ==
        LET indices == SeenIndices(tables, key)
        IN  IF Len(indices) > 2
              THEN [i \in 1..Len(indices) |->
                      DuplicateDiagnostic(tables, key, i, indices[i])]
              ELSE <<>>
  IN  Flatten([k \in 1..Len(keys) |-> ForKey(keys[k])])

\* ValidateDuplicateTablesAsDiagnostics
ValidateDuplicateTablesAsDiagnostics(tables, ord) ==
  LET keys == RangeOrder(tables, ord)
      ForKey(key) ==
        LET indices == SeenIndices(tables, key)
        IN  IF Len(indices) > 1
              THEN [i \in 1..Len(indices) |->
                      DuplicateDiagnostic(tables, key, i, indices[i])]
              ELSE <<>>
  IN  Flatten([k \in 1..Len(keys) |-> ForKey(keys[k])])

\* The location strings of the tables whose location names a file.
FileLocationsOnly(tables, indices) ==
  LET One(idx) ==
        LET loc == tables[idx].SourceLocation
        IN  IF loc # <<>> /\ loc[1].File # <<>>
              THEN << loc[1].File \o <<":">> \o Itoa(loc[1].Line)
                        \o <<":">> \o Itoa(loc[1].Column) >>
            ELSE <<>>
  IN  Flatten([i \in 1..Len(indices) |-> One(indices[i])])

\* Location strings that give the line alone, also when a file is known.
DuplicateLocationsLineOnly(tables, indices) ==
  LET One(idx) ==
        LET loc == tables[idx].SourceLocation
        IN  IF loc # <<>> THEN << ELine \o Itoa(loc[1].Line) >>
            ELSE <<>>
  IN  Flatten([i \in 1..Len(indices) |-> One(indices[i])])

\* The location strings validateNoDuplicateTables lists for one key.
DuplicateLocations(tables, indices) ==
  LET One(idx) ==
        LET loc == tables[idx].SourceLocation
        IN  IF loc # <<>> /\ loc[1].File # <<>>
              THEN << loc[1].File \o <<":">> \o Itoa(loc[1].Line)
                        \o <<":">> \o Itoa(loc[1].Column) >>
            ELSE IF loc # <<>> THEN << ELine \o Itoa(loc[1].Line) >>
            ELSE <<>>
  IN  Flatten([i \in 1..Len(indices) |-> One(indices[i])])

\* validateNoDuplicateTables: nil, or the error of the joined messages.
validateNoDuplicateTables(tables, ord) ==
  LET keys == RangeOrder(tables, ord)
      ForKey(key) ==
        LET indices   == SeenIndices(tables, key)
            locations == DuplicateLocations(tables, indices)
        IN  IF Len(indices) > 1
              THEN << [key       |-> key,
                       locations |-> locations,
                       text      |->
                         IF Len(locations) > 0
                           THEN ETable \o Quote(key) \o EMultipleAt
                                  \o Join(locations, <<",", " ">>)
                           ELSE ETable \o Quote(key) \o EMultiple] >>
              ELSE <<>>
      errorMessages == Flatten([k \in 1..Len(keys) |-> ForKey(keys[k])])
  IN  IF Len(errorMessages) > 0
        THEN << [text |-> Join([i \in 1..Len(errorMessages) |->
                                  errorMessages[i].text], <<";", " ">>),
                 segs |-> errorMessages] >>
        ELSE <<>>

----------------------------------------------------------------------------
(* File/Directory Loader (loader.go).                                      *)
(* The file system holds one directory, DirPath.  fs maps the name of each *)
(* of its entries to [kind, readable, items]: kind is "file", "dir" or     *)
(* "symlink" (a link to a regular file), items the text of the file (of    *)
(* the link's target; of the one schema file inside a subdirectory).  A    *)
(* load returns [err, val, reads]: val the tables of the Schema, reads the *)
(* paths given to os.ReadFile, in order.                                   *)

DirPath == <<"d">>

\* filepath.Join(dir, name) for a clean dir and a plain name.
JoinPath(dir, name) == dir \o <<"/">> \o name

\* os.Stat(path) succeeds and reports a directory.
StatIsDir(fs, path) == path = DirPath

\* os.Stat(path) succeeds (it follows a symbolic link to its file).
StatExists(fs, path) ==
  \/ path = DirPath
  \/ \E name \in DOMAIN fs : path = JoinPath(DirPath, name)

EntryAt(fs, path) ==
  fs[CHOOSE name \in DOMAIN fs : path = JoinPath(DirPath, name)]

\* os.ReadFile
ReadFile(fs, path) ==
  IF EntryAt(fs, path).kind # "dir" /\ EntryAt(fs, path).readable
    THEN Ok(EntryAt(fs, path).items)
    ELSE Fail(Err(OsOpen \o path \o OsPermission))

\* os.ReadDir(DirPath): the entry names, sorted by name.
ReadDir(fs) == SortSet(DOMAIN fs)

\* An entry selection that does not skip symbolic links.
selectSchemaFilesAndLinks(fs, dir) ==
  LET picked == SelectSeq(ReadDir(fs),
                  LAMBDA name : /\ fs[name].kind # "dir"
                                /\ HasSuffix(ToLower(name), SSuffix))
  IN  SortStrings([i \in 1..Len(picked) |-> JoinPath(dir, picked[i])])

\* The entry selection of loadSchemaFromDir, and sort.Strings on it.
selectSchemaFiles(fs, dir) ==
  LET picked == SelectSeq(ReadDir(fs),
                  LAMBDA name : /\ fs[name].kind # "dir"
                                /\ fs[name].kind # "symlink"
                                /\ HasSuffix(ToLower(name), SSuffix))
  IN  SortStrings([i \in 1..Len(picked) |-> JoinPath(dir, picked[i])])

\* A validator's result (nil or an error) as [err, val].
Checked(dup, v) == IF dup # <<>> THEN Fail(dup[1]) ELSE Ok(v)

\* loadSQLSchemaFromBytesWithFilename: [err, val].
loadSQLSchemaFromBytesWithFilename(items, filename, ord) ==
  Try(parsePostgresSQLSchemaWithFilename(items, filename),
      LAMBDA e : Fail(Wrap(EFailedDDL, e)),
      LAMBDA tables :
        Checked(validateNoDuplicateTables(tables, ord), tables))

\* What a load returns.
Loaded(tables, reads) == [err |-> <<>>, val |-> tables, reads |-> reads]
NotLoaded(e, reads) == [err |-> <<e>>, val |-> <<>>, reads |-> reads]

\* A loop that returns the tables lowered so far beside its error.
RECURSIVE loadFilesKeepingTables(_, _, _, _, _)
loadFilesKeepingTables(fs, files, ord, allTables, reads) ==
  IF files = <<>> THEN
    Try(Checked(validateNoDuplicateTables(allTables, ord), allTables),
        LAMBDA e : [err |-> <<e>>, val |-> allTables, reads |-> reads],
        LAMBDA tables : Loaded(tables, reads))
  ELSE
    Try(ReadFile(fs, Head(files)),
        LAMBDA e :
          [err   |-> <<Wrap(EFailedReadFile \o Head(files) \o <<":", " ">>,
                            e)>>,
           val   |-> allTables,
           reads |-> Append(reads, Head(files))],
        LAMBDA data :
          Try(loadSQLSchemaFromBytesWithFilename(data, Head(files), ord),
              LAMBDA e :
                [err   |-> <<Wrap(EFailedParseFile \o Head(files)
                                    \o <<":", " ">>, e)>>,
                 val   |-> allTables,
                 reads |-> Append(reads, Head(files))],
              LAMBDA tables :
                loadFilesKeepingTables(fs, Tail(files), ord,
                  allTables \o tables, Append(reads, Head(files)))))

\* The loop of loadSchemaFromDir over sqlFiles, then the validation of
\* the combined schema.
RECURSIVE loadFiles(_, _, _, _, _)
loadFiles(fs, files, ord, allTables, reads) ==
  IF files = <<>> THEN
    Try(Checked(validateNoDuplicateTables(allTables, ord), allTables),
        LAMBDA e : NotLoaded(e, reads),
        LAMBDA tables : Loaded(tables, reads))
  ELSE
    Try(ReadFile(fs, Head(files)),
        LAMBDA e :
          NotLoaded(Wrap(EFailedReadFile \o Head(files) \o <<":", " ">>, e),
                    Append(reads, Head(files))),
        LAMBDA data :
          Try(loadSQLSchemaFromBytesWithFilename(data, Head(files), ord),
              LAMBDA e :
                NotLoaded(Wrap(EFailedParseFile \o Head(files)
                                 \o <<":", " ">>, e),
                          Append(reads, Head(files))),
              LAMBDA tables :
                loadFiles(fs, Tail(files), ord, allTables \o tables,
                          Append(reads, Head(files)))))

\* A directory load without the check that a file was selected.
loadSchemaFromDirAllowingNone(fs, dir, ord) ==
  loadFiles(fs, selectSchemaFiles(fs, dir), ord, <<>>, <<>>)

\* loadSchemaFromDir
loadSchemaFromDir(fs, dir, ord) ==
  IF Len(selectSchemaFiles(fs, dir)) = 0
    THEN NotLoaded(Err(ENoFiles \o dir), <<>>)
    ELSE loadFiles(fs, selectSchemaFiles(fs, dir), ord, <<>>, <<>>)

\* loadSQLSchema
loadSQLSchema(fs, path, ord) ==
  Try(ReadFile(fs, path),
      LAMBDA e : NotLoaded(Wrap(EFailedRead, e), <<path>>),
      LAMBDA data :
        Try(loadSQLSchemaFromBytesWithFilename(data, path, ord),
            LAMBDA e : NotLoaded(e, <<path>>),
            LAMBDA tables : Loaded(tables, <<path>>)))

\* A load that takes every existing path for a schema file.
LoadSchemaAnySuffix(fs, path, ord) ==
  IF StatIsDir(fs, path) THEN loadSchemaFromDir(fs, path, ord)
  ELSE IF StatExists(fs, path) THEN loadSQLSchema(fs, path, ord)
  ELSE NotLoaded(Err(EDidNotFind), <<>>)

\* LoadSchema
LoadSchema(fs, path, ord) ==
  IF StatIsDir(fs, path) THEN loadSchemaFromDir(fs, path, ord)
  ELSE IF StatExists(fs, path) /\ HasSuffix(ToLower(path), SSuffix)
    THEN loadSQLSchema(fs, path, ord)
  ELSE NotLoaded(Err(EDidNotFind), <<>>)

----------------------------------------------------------------------------
(* Check Pipeline (checker.go).                                            *)

\* The entry selection of loadSchemaFromDirWithoutValidation, sorted.
selectSchemaFilesWithoutValidation(fs, dir) ==
  LET picked == SelectSeq(ReadDir(fs),
                  LAMBDA name : /\ fs[name].kind # "dir"
                                /\ fs[name].kind # "symlink"
                                /\ HasSuffix(ToLower(name), SSuffix))
  IN  SortStrings([i \in 1..Len(picked) |-> JoinPath(dir, picked[i])])

\* The loop of loadSchemaFromDirWithoutValidation over sqlFiles.
RECURSIVE loadFilesWithoutValidation(_, _, _, _)
loadFilesWithoutValidation(fs, files, allTables, reads) ==
  IF files = <<>> THEN Loaded(allTables, reads)
  ELSE
    Try(ReadFile(fs, Head(files)),
        LAMBDA e :
          NotLoaded(Wrap(EFailedReadFile \o Head(files) \o <<":", " ">>, e),
                    Append(reads, Head(files))),
        LAMBDA data :
          Try(parsePostgresSQLSchemaWithFilename(data, Head(files)),
              LAMBDA e :
                NotLoaded(Wrap(EFailedParseFile \o Head(files)
                                 \o <<":", " ">>, e),
                          Append(reads, Head(files))),
              LAMBDA tables :
                loadFilesWithoutValidation(fs, Tail(files),
                  allTables \o tables, Append(reads, Head(files)))))

\* loadSchemaFromDirWithoutValidation
loadSchemaFromDirWithoutValidation(fs, dir) ==
  IF Len(selectSchemaFilesWithoutValidation(fs, dir)) = 0
    THEN NotLoaded(Err(ENoFiles \o dir), <<>>)
    ELSE loadFilesWithoutValidation(fs,
           selectSchemaFilesWithoutValidation(fs, dir), <<>>, <<>>)

\* loadSQLSchemaWithoutValidation
loadSQLSchemaWithoutValidation(fs, path) ==
  Try(ReadFile(fs, path),
      LAMBDA e : NotLoaded(Wrap(EFailedRead, e), <<path>>),
      LAMBDA data :
        Try(parsePostgresSQLSchemaWithFilename(data, path),
            LAMBDA e : NotLoaded(Wrap(EFailedDDL, e), <<path>>),
            LAMBDA tables : Loaded(tables, <<path>>)))

\* loadSchemaWithoutValidation
loadSchemaWithoutValidation(fs, path) ==
  IF StatIsDir(fs, path) THEN loadSchemaFromDirWithoutValidation(fs, path)
  ELSE IF StatExists(fs, path) /\ HasSuffix(ToLower(path), SSuffix)
    THEN loadSQLSchemaWithoutValidation(fs, path)
  ELSE NotLoaded(Err(EDidNotFind), <<>>)

IsDigit(c) == Byte[c] >= 48 /\ Byte[c] <= 57

\* The index after the longest run of digits of s that starts at index i.
RECURSIVE DigitsEnd(_, _)
DigitsEnd(s, i) ==
  IF i <= Len(s) /\ IsDigit(s[i]) THEN DigitsEnd(s, i + 1) ELSE i

\* strconv.Atoi on a run of digits (short enough not to overflow).
RECURSIVE Atoi(_)
Atoi(s) ==
  IF s = <<>> THEN 0
  ELSE 10 * Atoi(SubSeq(s, 1, Len(s) - 1)) + (Byte[s[Len(s)]] - 48)

IsSpace(c) == c = " " \/ c = "\n"

\* strings.TrimSpace
RECURSIVE TrimSpace(_)
TrimSpace(s) ==
  IF s = <<>> THEN s
  ELSE IF IsSpace(Head(s)) THEN TrimSpace(Tail(s))
  ELSE IF IsSpace(s[Len(s)]) THEN TrimSpace(SubSeq(s, 1, Len(s) - 1))
  ELSE s

\* The colons of s at which ([^:]+):(\d+):(\d+) can match: a colon after
\* a character that is no colon, then digits, a colon, and digits.
FileLocColons(s) ==
  {c \in 2..Len(s) :
     /\ s[c] = ":"
     /\ s[c - 1] # ":"
     /\ DigitsEnd(s, c + 1) > c + 1
     /\ DigitsEnd(s, c + 1) <= Len(s)
     /\ s[DigitsEnd(s, c + 1)] = ":"
     /\ DigitsEnd(s, DigitsEnd(s, c + 1) + 1) > DigitsEnd(s, c + 1) + 1}

\* The indices at which "line (\d+)" matches in s.
LineStarts(s) ==
  {i \in 1..Len(s) :
     /\ i + Len(ELine) <= Len(s)
     /\ SubSeq(s, i, i + Len(ELine) - 1) = ELine
     /\ IsDigit(s[i + Len(ELine)])}

\* The indices of the colons of s, in increasing order.
ColonIndices(s) ==
  LET all == [i \in 1..Len(s) |-> i]
  IN  SelectSeq(all, LAMBDA i : s[i] = ":")

\* parseErrorToDiagnostic on the error's text.
parseErrorToDiagnostic(errMsg, defaultPath) ==
  IF FileLocColons(errMsg) # {} THEN
    LET c1     == CHOOSE c \in FileLocColons(errMsg) :
                    \A d \in FileLocColons(errMsg) : c <= d
        before == {k \in 1..(c1 - 1) : errMsg[k] = ":"}
        start  == IF before = {} THEN 1
                  ELSE 1 + (CHOOSE k \in before : \A j \in before : j <= k)
        c2     == DigitsEnd(errMsg, c1 + 1)
        e2     == DigitsEnd(errMsg, c2 + 1)
        colons == ColonIndices(errMsg)
    IN  [Message  |-> IF Len(colons) >= 3
                        THEN TrimSpace(SubSeq(errMsg, colons[3] + 1,
                                              Len(errMsg)))
                        ELSE errMsg,
         Severity |-> "error",
         File     |-> SubSeq(errMsg, start, c1 - 1),
         Line     |-> Atoi(SubSeq(errMsg, c1 + 1, c2 - 1)),
         Column   |-> Atoi(SubSeq(errMsg, c2 + 1, e2 - 1))]
  ELSE IF LineStarts(errMsg) # {} THEN
    LET i == CHOOSE a \in LineStarts(errMsg) :
               \A b \in LineStarts(errMsg) : a <= b
        e == DigitsEnd(errMsg, i + Len(ELine))
    IN  [Message  |-> errMsg,
         Severity |-> "error",
         File     |-> defaultPath,
         Line     |-> Atoi(SubSeq(errMsg, i + Len(ELine), e - 1)),
         Column   |-> 1]
  ELSE [Message  |-> errMsg,
        Severity |-> "error",
        File     |-> defaultPath,
        Line     |-> 1,
        Column   |-> 1]

\* NewCheckOutput
NewCheckOutput ==
  [Diagnostics |-> <<>>,
   Summary     |-> [Errors |-> 0, Warnings |-> 0, Valid |-> TRUE]]

\* A pass that appends the diagnostic and leaves the summary as it is.
AppendOnly(output, diag) ==
  [Diagnostics |-> Append(output.Diagnostics, diag),
   Summary     |-> output.Summary]

\* One pass of CheckSchema's loops: the diagnostic appended, the error
\* counted, the report marked invalid.
AddDiagnostic(output, diag) ==
  [Diagnostics |-> Append(output.Diagnostics, diag),
   Summary     |-> [output.Summary EXCEPT !.Errors = @ + 1,
                                          !.Valid = FALSE]]

RECURSIVE AddDiagnostics(_, _)
AddDiagnostics(output, diags) ==
  IF diags = <<>> THEN output
  ELSE AddDiagnostics(AddDiagnostic(output, Head(diags)), Tail(diags))

\* CheckSchema on what its load stage returned: [report, err, reads,
\* validated], report the CheckOutput that is marshalled, err the returned
\* error (always nil), validated whether stage 2 (the duplicate
\* validation) ran.
checkLoaded(loaded, path, ord) ==
  IF loaded.err # <<>>
    THEN [report    |-> AddDiagnostic(NewCheckOutput,
                          parseErrorToDiagnostic(loaded.err[1].text, path)),
          err       |-> <<>>,
          reads     |-> loaded.reads,
          validated |-> FALSE]
    ELSE [report    |-> AddDiagnostics(NewCheckOutput,
                          ValidateDuplicateTablesAsDiagnostics(loaded.val,
                                                               ord)),
          err       |-> <<>>,
          reads     |-> loaded.reads,
          validated |-> TRUE]

\* CheckSchema
CheckSchema(fs, path, ord) ==
  checkLoaded(loadSchemaWithoutValidation(fs, path), path, ord)

----------------------------------------------------------------------------
(* The check command (cmd/check.go).                                       *)
(* What a run wrote and did is [exit, stdout, stderr, calls, reads]: its   *)
(* exit status, the pieces written to each stream (a text, or the JSON of  *)
(* a schema or of a report, kept as the value it encodes), the loader      *)
(* functions it called and the files they read.  log.Fatalf writes its     *)
(* message to the error stream behind a time stamp, left out here, and     *)
(* exits with status 1.                                                    *)

\* The texts of runCheck; the check mark of "valid" is spelled CHECKMARK.
CheckText ==
  [missing |->
     <<"M","i","s","s","i","n","g"," ","a"," ","s","c","h","e","m","a"," ",
       "f","i","l","e",".","\n","\n","U","s","a","g","e",":"," ","l","o",
       "c","k","p","l","a","n","e"," ","c","h","e","c","k"," ","[","s","c",
       "h","e","m","a"," ","d","i","r"," ","o","r"," ",".","l","p",".","s",
       "q","l"," ","f","i","l","e","]","\n","H","e","l","p",":"," ","l","o",
       "c","k","p","l","a","n","e"," ","c","h","e","c","k"," ","-","-","h",
       "e","l","p","\n">>,
   conflict |->
     <<"E","r","r","o","r",":"," ","-","-","p","r","i","n","t","-","s","c",
       "h","e","m","a"," ","a","n","d"," ","-","-","o","u","t","p","u","t",
       " ","j","s","o","n"," ","c","a","n","n","o","t"," ","b","e"," ","u",
       "s","e","d"," ","t","o","g","e","t","h","e","r","\n">>,
   conflictPrintSchema |->
     <<" "," ","-","-","p","r","i","n","t","-","s","c","h","e","m","a",":",
       " ","p","r","i","n","t","s"," ","t","h","e"," ","p","a","r","s","e",
       "d"," ","s","c","h","e","m","a"," ","s","t","r","u","c","t","u","r",
       "e","\n">>,
   conflictOutput |->
     <<" "," ","-","-","o","u","t","p","u","t"," ","j","s","o","n",":"," ",
       "p","r","i","n","t","s"," ","v","a","l","i","d","a","t","i","o","n",
       " ","d","i","a","g","n","o","s","t","i","c","s","\n">>,
   failedLoad |->
     <<"F","a","i","l","e","d"," ","t","o"," ","l","o","a","d"," ","s","c",
       "h","e","m","a",":"," ">>,
   failedCheck |->
     <<"F","a","i","l","e","d"," ","t","o"," ","c","h","e","c","k"," ","s",
       "c","h","e","m","a",":"," ">>,
   error |->
     <<"E","r","r","o","r",":"," ">>,
   valid |->
     <<"CHECKMARK"," ","S","c","h","e","m","a"," ","i","s"," ","v","a","l",
       "i","d","\n">>,
   json |->
     <<"j","s","o","n">>]

Text(chars) == [kind |-> "text", val |-> chars]

\* The --print-schema branch on what LoadSchema returned.
printSchemaBranch(r) ==
  IF r.err # <<>>
    THEN [exit   |-> 1,
          stdout |-> <<>>,
          stderr |-> <<Text(CheckText.failedLoad \o r.err[1].text
                              \o <<"\n">>)>>,
          calls  |-> <<"LoadSchema">>,
          reads  |-> r.reads]
    ELSE [exit   |-> 0,
          stdout |-> <<[kind |-> "schema", val |-> r.val]>>,
          stderr |-> <<>>,
          calls  |-> <<"LoadSchema">>,
          reads  |-> r.reads]

\* The --output json branch on what CheckSchema returned.
outputJsonBranch(c) ==
  IF c.err # <<>>
    THEN [exit   |-> 1,
          stdout |-> <<>>,
          stderr |-> <<Text(CheckText.failedCheck \o c.err[1].text
                              \o <<"\n">>)>>,
          calls  |-> <<"CheckSchema">>,
          reads  |-> c.reads]
    ELSE [exit   |-> 0,
          stdout |-> <<[kind |-> "report", val |-> c.report]>>,
          stderr |-> <<>>,
          calls  |-> <<"CheckSchema">>,
          reads  |-> c.reads]

\* The default branch on what LoadSchema returned.
defaultBranch(r) ==
  IF r.err # <<>>
    THEN [exit   |-> 1,
          stdout |-> <<>>,
          stderr |-> <<Text(CheckText.error \o r.err[1].text \o <<"\n">>)>>,
          calls  |-> <<"LoadSchema">>,
          reads  |-> r.reads]
    ELSE [exit   |-> 0,
          stdout |-> <<Text(CheckText.valid)>>,
          stderr |-> <<>>,
          calls  |-> <<"LoadSchema">>,
          reads  |-> r.reads]

\* A runCheck without the test of conflicting flags.
runCheckPrintSchemaFirst(f, args, checkPrintSchema, checkOutput, ord) ==
  IF Len(args) # 1
    THEN [exit |-> 1, stdout |-> <<Text(CheckText.missing)>>,
          stderr |-> <<>>, calls |-> <<>>, reads |-> <<>>]
  ELSE IF checkPrintSchema
    THEN printSchemaBranch(LoadSchema(f, args[1], ord))
  ELSE IF checkOutput = CheckText.json
    THEN outputJsonBranch(CheckSchema(f, args[1], ord))
  ELSE defaultBranch(LoadSchema(f, args[1], ord))

\* runCheck on the positional arguments and the values of the flags
\* --print-schema and --output.
runCheck(f, args, checkPrintSchema, checkOutput, ord) ==
  IF Len(args) # 1
    THEN [exit |-> 1, stdout |-> <<Text(CheckText.missing)>>,
          stderr |-> <<>>, calls |-> <<>>, reads |-> <<>>]
  ELSE IF checkPrintSchema /\ checkOutput = CheckText.json
    THEN [exit   |-> 1,
          stdout |-> <<>>,
          stderr |-> <<Text(CheckText.conflict),
                       Text(CheckText.conflictPrintSchema),
                       Text(CheckText.conflictOutput)>>,
          calls  |-> <<>>,
          reads  |-> <<>>]
  ELSE IF checkPrintSchema
    THEN printSchemaBranch(LoadSchema(f, args[1], ord))
  ELSE IF checkOutput = CheckText.json
    THEN outputJsonBranch(CheckSchema(f, args[1], ord))
  ELSE defaultBranch(LoadSchema(f, args[1], ord))

----------------------------------------------------------------------------
(* Inputs.                                                                 *)

\* Identifiers as the parser delivers them ("a.b" and "b.t" are quoted in
\* the source).
IdT  == <<"t">>
IdU  == <<"u">>
IdBT == <<"b", ".", "t">>
IdA  == <<"a">>
IdAB == <<"a", ".", "b">>

StrNode(s) == [isString |-> TRUE, Sval |-> s]
NilNode == [node |-> "nil"]

\* id BIGINT PRIMARY KEY
ColumnId ==
  [node        |-> "ColumnDef",
   Colname     |-> <<"i", "d">>,
   TypeName    |-> <<[Names       |-> <<StrNode(SPgCatalog),
                                        StrNode(<<"i", "n", "t", "8">>)>>,
                      Typmods     |-> <<>>,
                      ArrayBounds |-> 0]>>,
   Constraints |-> <<[node |-> "Constraint", Contype |-> "CONSTR_PRIMARY",
                      RawExpr |-> NilNode]>>]

CreateStmt(schemaname, relname) ==
  [kind |-> "create", hasRelation |-> TRUE, Schemaname |-> schemaname,
   Relname |-> relname, TableElts |-> <<ColumnId>>]

\* A CREATE TABLE node without a relation.
MalformedCreate ==
  [kind |-> "create", hasRelation |-> FALSE, Schemaname |-> <<>>,
   Relname |-> <<>>, TableElts |-> <<>>]

Garbage == [kind |-> "garbage"]

\* What the set-up writes into a schema file: CREATE TABLE t, public.t,
\* u, "a.b".t and a."b.t", a malformed CREATE TABLE, and text that is no
\* SQL.
ItemPool ==
  {CreateStmt(<<>>, IdT), CreateStmt(SPublic, IdT), CreateStmt(<<>>, IdU),
   CreateStmt(IdAB, IdT), CreateStmt(IdA, IdBT), MalformedCreate, Garbage}

\* The entries the set-up may create, each name with its kind: two schema
\* files (one with the suffix in upper case), a file with another suffix,
\* a symbolic link to a schema file and a subdirectory.
NameA == <<"a",".","l","p",".","s","q","l">>
NameB == <<"B",".","L","P",".","S","Q","L">>
NameC == <<"c",".","s","q","l">>
NameD == <<"d",".","l","p",".","s","q","l">>
NameE == <<"e",".","l","p",".","s","q","l">>

EntryKind(name) ==
  IF name = NameD THEN "dir" ELSE IF name = NameE THEN "symlink" ELSE "file"

NamePool == {NameA, NameB, NameC, NameD, NameE}

\* The schema files the set-up writes items into; the other files are
\* created holding CREATE TABLE t, and so is the schema file NestedName
\* inside the subdirectory.
Writable == {NameA, NameB}

NestedName == <<"n",".","l","p",".","s","q","l">>

\* A path that names nothing.
MissingPath == <<"d","/","x",".","l","p",".","s","q","l">>

\* The lists without repetition that hold every element of S.
Perms(S) ==
  {p \in [1..Cardinality(S) -> S] : \A x \in S : \E i \in DOMAIN p : p[i] = x}

----------------------------------------------------------------------------
(* The state machine: the set-up builds the directory, then one call of    *)
(* LoadSchema or CheckSchema is made on a path; or the validators are      *)
(* called on a hand-built Schema.                                          *)

VARIABLES
  fs,      \* the entries of the directory DirPath
  op,      \* "none", or the function that was called
  path,    \* the path it was called with
  out,     \* what it returned
  vin,     \* the tables of the hand-built Schema
  vhard,   \* <<>>, or what validateNoDuplicateTables returned on vin
  vdiag,   \* <<>>, or what ValidateDuplicateTablesAsDiagnostics returned
  src,     \* the items of the SQL text handed to the parser
  low,     \* <<>>, or the statement loop of the parser: its tree, the
           \* statement it is at, schema.Tables, and the error it returned
  pgType,  \* the type name handed to the type normalizer
  colDef,  \* <<>>, or the ColumnDef handed to parseColumnDef
  buf      \* the bytes of the text handed to the position resolver, or
           \* of the message handed to parseErrorToDiagnostic

vars ==
  <<fs, op, path, out, vin, vhard, vdiag, src, low, pgType, colDef, buf>>

NoEntries == [name \in {} |-> <<>>]

TotalItems(f) ==
  LET RECURSIVE Sum(_)
      Sum(S) == IF S = {} THEN 0
                ELSE LET n == CHOOSE x \in S : TRUE
                     IN  Len(f[n].items) + Sum(S \ {n})
  IN  Sum(DOMAIN f \cap Writable)

\* The keys of every table the files of the directory define.
FsKeys(f) ==
  {TableKey([Schema |-> f[n].items[i].Schemaname,
             Name   |-> f[n].items[i].Relname]) :
     <<n, i>> \in {<<m, j>> \in (DOMAIN f) \X (1..MaxStmts) :
                     /\ j <= Len(f[m].items)
                     /\ f[m].items[j].kind = "create"
                     /\ f[m].items[j].hasRelation}}

\* The paths a call is made with: the directory, each entry that is no
\* directory, and a path that does not exist.
InputPaths(f) ==
  {DirPath, MissingPath}
    \cup {JoinPath(DirPath, n) : n \in {m \in DOMAIN f : f[m].kind # "dir"}}

Init ==
  /\ fs = NoEntries
  /\ op = "none"
  /\ path = <<>>
  /\ out = <<>>
  /\ vin = <<>>
  /\ vhard = <<>>
  /\ vdiag = <<>>
  /\ src = <<>>
  /\ low = <<>>
  /\ pgType = <<>>
  /\ colDef = <<>>
  /\ buf = <<>>

\* The set-up creates an entry (os.WriteFile, os.MkdirAll, os.Symlink).
CreateEntry(name, readable) ==
  /\ op = "none"
  /\ name \notin DOMAIN fs
  /\ Cardinality(DOMAIN fs) < MaxFiles
  /\ readable \/ name \in Writable
  /\ fs' = [n \in DOMAIN fs \cup {name} |->
              IF n = name
                THEN [kind     |-> EntryKind(name),
                      readable |-> readable,
                      items    |-> IF name \in Writable THEN <<>>
                                     ELSE <<CreateStmt(<<>>, IdT)>>]
                ELSE fs[n]]
  /\ UNCHANGED <<op, path, out, vin, vhard, vdiag, src, low, pgType, colDef, buf>>

\* The set-up appends an item to a schema file.
WriteItem(name, item) ==
  /\ op = "none"
  /\ name \in DOMAIN fs \cap Writable
  /\ fs[name].readable
  /\ TotalItems(fs) < MaxStmts
  /\ fs' = [fs EXCEPT ![name].items = Append(@, item)]
  /\ UNCHANGED <<op, path, out, vin, vhard, vdiag, src, low, pgType, colDef, buf>>

\* LoadSchema(p)
CallLoadSchema(p, ord) ==
  /\ op = "none"
  /\ op' = "LoadSchema"
  /\ path' = p
  /\ out' = LoadSchema(fs, p, ord)
  /\ UNCHANGED <<fs, vin, vhard, vdiag, src, low, pgType, colDef, buf>>

\* CheckSchema(p)
CallCheckSchema(p, ord) ==
  /\ op = "none"
  /\ op' = "CheckSchema"
  /\ path' = p
  /\ out' = CheckSchema(fs, p, ord)
  /\ UNCHANGED <<fs, vin, vhard, vdiag, src, low, pgType, colDef, buf>>

Next ==
  \/ \E name \in NamePool, readable \in BOOLEAN : CreateEntry(name, readable)
  \/ \E name \in NamePool, item \in ItemPool : WriteItem(name, item)
  \/ \E p \in InputPaths(fs), ord \in Perms(FsKeys(fs)) :
       CallLoadSchema(p, ord)
  \/ \E p \in InputPaths(fs), ord \in Perms(FsKeys(fs)) :
       CallCheckSchema(p, ord)

Spec == Init /\ [][Next]_vars

----------------------------------------------------------------------------
(* The validators on hand-built Schemas (database.Schema literals, as the  *)
(* tests of the validators build them): tables are appended to vin, then   *)
(* each validator is called once on vin.                                   *)

\* A database.Table literal; loc is <<>> (SourceLocation nil) or one
\* location.
TableLiteral(schema, name, loc) ==
  [Name           |-> name,
   Schema         |-> schema,
   Columns        |-> <<>>,
   RLSEnabled     |-> FALSE,
   SourceLocation |-> loc]

FileF == <<"f",".","l","p",".","s","q","l">>

\* The source locations a literal at index idx is given: none, one with
\* an empty File, one in the file FileF.
LocationPool(idx) ==
  {<<>>,
   <<[File |-> <<>>, Line |-> idx, Column |-> idx + 1]>>,
   <<[File |-> FileF, Line |-> idx, Column |-> idx + 1]>>}

\* The tables t, public.t, "a.b".t and a."b.t".
IdentityPool == {<<<<>>, IdT>>, <<SPublic, IdT>>, <<IdAB, IdT>>, <<IdA, IdBT>>}

InitValidate ==
  /\ fs = NoEntries
  /\ op = "build"
  /\ path = <<>>
  /\ out = <<>>
  /\ vin = <<>>
  /\ vhard = <<>>
  /\ vdiag = <<>>
  /\ src = <<>>
  /\ low = <<>>
  /\ pgType = <<>>
  /\ colDef = <<>>
  /\ buf = <<>>

\* schema.Tables = append(schema.Tables, table)
AddTable(id, loc) ==
  /\ op = "build"
  /\ Len(vin) < MaxTables
  /\ vin' = Append(vin, TableLiteral(id[1], id[2], loc))
  /\ UNCHANGED <<fs, op, path, out, vhard, vdiag, src, low, pgType, colDef, buf>>

\* validateNoDuplicateTables(schema)
CallValidateNoDuplicateTables(ord) ==
  /\ op \in {"build", "validate"}
  /\ vhard = <<>>
  /\ op' = "validate"
  /\ vhard' = <<validateNoDuplicateTables(vin, ord)>>
  /\ UNCHANGED <<fs, path, out, vin, vdiag, src, low, pgType, colDef, buf>>

\* ValidateDuplicateTablesAsDiagnostics(schema)
CallValidateDuplicateTablesAsDiagnostics(ord) ==
  /\ op \in {"build", "validate"}
  /\ vdiag = <<>>
  /\ op' = "validate"
  /\ vdiag' = <<ValidateDuplicateTablesAsDiagnostics(vin, ord)>>
  /\ UNCHANGED <<fs, path, out, vin, vhard, src, low, pgType, colDef, buf>>

NextValidate ==
  \/ \E id \in IdentityPool, loc \in LocationPool(Len(vin) + 1) :
       AddTable(id, loc)
  \/ \E ord \in Perms(SeenKeys(vin)) : CallValidateNoDuplicateTables(ord)
  \/ \E ord \in Perms(SeenKeys(vin)) :
       CallValidateDuplicateTablesAsDiagnostics(ord)

SpecValidate == InitValidate /\ [][NextValidate]_vars

----------------------------------------------------------------------------
(* The statement loop of parsePostgresSQLSchemaWithFilename, one statement *)
(* at a time: statements are appended to the text src, the text is parsed, *)
(* and each step lowers the statement the loop is at.                      *)

\* An AlterTableCmd node with a sub-command type, and a node that is none.
AlterCmd(subtype) == [node |-> "AlterTableCmd", Subtype |-> subtype]
EnableRLS  == AlterCmd("AT_EnableRowSecurity")
DisableRLS == AlterCmd("AT_DisableRowSecurity")
AddColumn  == AlterCmd("AT_AddColumn")

\* ALTER TABLE schemaname.relname cmds
AlterStmt(schemaname, relname, cmds) ==
  [kind        |-> "alter",
   hasRelation |-> TRUE,
   Schemaname  |-> schemaname,
   Relname     |-> relname,
   Cmds        |-> cmds]

\* An AlterTableStmt whose Relation is nil.
MalformedAlter ==
  [kind |-> "alter", hasRelation |-> FALSE, Schemaname |-> <<>>,
   Relname |-> <<>>, Cmds |-> <<EnableRLS>>]

\* A statement of a kind the loop has no case for (CREATE INDEX).
IndexStmt == [kind |-> "index"]

\* The statements a source text is made of.
StatementPool ==
  {CreateStmt(<<>>, IdT), CreateStmt(SPublic, IdT), CreateStmt(<<>>, IdU),
   AlterStmt(<<>>, IdT, <<EnableRLS>>),
   AlterStmt(<<>>, IdT, <<DisableRLS>>),
   AlterStmt(SPublic, IdT, <<EnableRLS>>),
   AlterStmt(SPublic, IdT, <<NilNode, DisableRLS, EnableRLS>>),
   AlterStmt(<<>>, IdT, <<AddColumn>>),
   AlterStmt(<<>>, IdU, <<EnableRLS, AddColumn, DisableRLS>>),
   AlterStmt(IdA, IdT, <<EnableRLS>>),
   IndexStmt, MalformedAlter, MalformedCreate, Garbage}

\* The parseContext of the text src.
ParseContext == [sql |-> SqlText(src), filename |-> FileF]

InitLower ==
  /\ fs = NoEntries
  /\ op = "source"
  /\ path = <<>>
  /\ out = <<>>
  /\ vin = <<>>
  /\ vhard = <<>>
  /\ vdiag = <<>>
  /\ src = <<>>
  /\ low = <<>>
  /\ pgType = <<>>
  /\ colDef = <<>>
  /\ buf = <<>>

\* A statement is appended to the source text.
AppendStatement(item) ==
  /\ op = "source"
  /\ Len(src) < MaxStmts
  /\ src' = Append(src, item)
  /\ UNCHANGED <<fs, op, path, out, vin, vhard, vdiag, low, pgType, colDef, buf>>

\* parsePostgresSQLSchemaWithFilename up to its loop: pg_query.Parse, the
\* empty schema and the parse context.
BeginLowering ==
  /\ op = "source"
  /\ Try(PgQueryParse(src),
         LAMBDA e :
           /\ op' = "returned"
           /\ low' = [tree |-> <<>>, next |-> 1, Tables |-> <<>>,
                      err |-> <<Wrap(EFailedSQL, e)>>],
         LAMBDA tree :
           /\ op' = "lowering"
           /\ low' = [tree |-> tree, next |-> 1, Tables |-> <<>>,
                      err |-> <<>>])
  /\ UNCHANGED <<fs, path, out, vin, vhard, vdiag, src, pgType, colDef, buf>>

\* One turn of the loop, on the statement low.next: schema.Tables after
\* it, or the error the function returns with no schema.
LowerStatement ==
  /\ op = "lowering"
  /\ low.next <= Len(low.tree)
  /\ Try(lowerTree(<<low.tree[low.next]>>, ParseContext, low.Tables),
         LAMBDA e :
           /\ op' = "returned"
           /\ low' = [low EXCEPT !.Tables = <<>>, !.err = <<e>>],
         LAMBDA tables :
           /\ op' = "lowering"
           /\ low' = [low EXCEPT !.Tables = tables, !.next = @ + 1])
  /\ UNCHANGED <<fs, path, out, vin, vhard, vdiag, src, pgType, colDef, buf>>

\* return schema, nil
ReturnSchema ==
  /\ op = "lowering"
  /\ low.next > Len(low.tree)
  /\ op' = "returned"
  /\ UNCHANGED <<fs, path, out, vin, vhard, vdiag, src, low, pgType, colDef, buf>>

NextLower ==
  \/ \E item \in StatementPool : AppendStatement(item)
  \/ BeginLowering
  \/ LowerStatement
  \/ ReturnSchema

SpecLower == InitLower /\ [][NextLower]_vars

----------------------------------------------------------------------------
(* LoadSchema and CheckSchema on a directory whose files hold ALTER TABLE   *)
(* statements.                                                             *)

\* The statements written into the files of such a directory.
RlsItemPool ==
  {CreateStmt(<<>>, IdT), CreateStmt(SPublic, IdT), CreateStmt(<<>>, IdU),
   AlterStmt(<<>>, IdT, <<EnableRLS>>),
   AlterStmt(SPublic, IdT, <<EnableRLS>>),
   AlterStmt(<<>>, IdT, <<DisableRLS>>),
   IndexStmt}

NextRls ==
  \/ \E name \in NamePool, readable \in BOOLEAN : CreateEntry(name, readable)
  \/ \E name \in NamePool, item \in RlsItemPool : WriteItem(name, item)
  \/ \E p \in InputPaths(fs), ord \in Perms(FsKeys(fs)) :
       CallLoadSchema(p, ord)
  \/ \E p \in InputPaths(fs), ord \in Perms(FsKeys(fs)) :
       CallCheckSchema(p, ord)

SpecRls == Init /\ [][NextRls]_vars

----------------------------------------------------------------------------
(* The type normalizer on type names: a name is a key of typeMap in some   *)
(* letter case or is made character by character, then it is normalized.   *)

\* The longest name made character by character.
MaxTypeLen == 4

\* strings.ToUpper on ASCII.
ToUpper(s) ==
  [i \in 1..Len(s) |->
     IF Byte[s[i]] >= 97 /\ Byte[s[i]] <= 122
       THEN Printable[Byte[s[i]] - 32 - 31] ELSE s[i]]

\* A name in a letter case: as it is, in capitals, or its first letter a
\* capital.
Cased(name, casing) ==
  IF casing = "upper" THEN ToUpper(name)
  ELSE IF casing = "title"
    THEN ToUpper(SubSeq(name, 1, 1)) \o SubSeq(name, 2, Len(name))
  ELSE name

\* The characters names are made of.
TypeChars ==
  {"i", "I", "n", "N", "t", "T", "8", "b", "B", "o", "O", "l", "L", " "}

InitType ==
  /\ fs = NoEntries
  /\ op = "type"
  /\ path = <<>>
  /\ out = <<>>
  /\ vin = <<>>
  /\ vhard = <<>>
  /\ vdiag = <<>>
  /\ src = <<>>
  /\ low = <<>>
  /\ pgType = <<>>
  /\ colDef = <<>>
  /\ buf = <<>>

\* The name is a key of typeMap, in a letter case.
TakeKey(k, casing) ==
  /\ op = "type"
  /\ pgType = <<>>
  /\ pgType' = Cased(typeMap[k][1], casing)
  /\ UNCHANGED <<fs, op, path, out, vin, vhard, vdiag, src, low, colDef, buf>>

\* The name grows by a character.
AppendChar(c) ==
  /\ op = "type"
  /\ Len(pgType) < MaxTypeLen
  /\ pgType' = Append(pgType, c)
  /\ UNCHANGED <<fs, op, path, out, vin, vhard, vdiag, src, low, colDef, buf>>

\* normalizePostgreSQLType(pgType)
CallNormalizePostgreSQLType ==
  /\ op = "type"
  /\ op' = "normalizePostgreSQLType"
  /\ out' = normalizePostgreSQLType(pgType)
  /\ UNCHANGED <<fs, path, vin, vhard, vdiag, src, low, pgType, colDef, buf>>

NextType ==
  \/ \E k \in 1..Len(typeMap), casing \in {"lower", "upper", "title"} :
       TakeKey(k, casing)
  \/ \E c \in TypeChars : AppendChar(c)
  \/ CallNormalizePostgreSQLType

SpecType == InitType /\ [][NextType]_vars

----------------------------------------------------------------------------
(* The column lowerer and the expression formatter on their own: a column  *)
(* definition is put together as the grammar of CREATE TABLE gives it (a   *)
(* name, a type, then constraints in source order) and handed to           *)
(* parseColumnDef; formatExpr is called on an expression node.             *)

\* The most constraints a column definition is given.
MaxConstraints == 3

AConst(tag, ival, sval, boolval, isnull) ==
  [node |-> "AConst", tag |-> tag, ival |-> ival, sval |-> sval,
   boolval |-> boolval, isnull |-> isnull]
IntConst(i) == AConst("ival", i, <<>>, FALSE, FALSE)
FuncCall(funcname, args) ==
  [node |-> "FuncCall", Funcname |-> funcname, Args |-> args]
TypeCast(arg) == [node |-> "TypeCast", Arg |-> arg]
SqlvalueFunction(o) == [node |-> "SqlvalueFunction", Op |-> o]
OtherNode == [node |-> "other"]
NotAString == [isString |-> FALSE, Sval |-> <<>>]
FuncNow == <<StrNode(<<"n", "o", "w">>)>>

\* Expressions without sub-expressions: the constants 0, 42, 1.5, 'x',
\* '', b'1', true, false and NULL, a constant with no value, each
\* operation code from 0 to one past the enumeration, a node of another
\* kind and the absent node.
ExprLeaves ==
  {IntConst(0), IntConst(42),
   AConst("fval", 0, <<"1", ".", "5">>, FALSE, FALSE),
   AConst("sval", 0, <<"x">>, FALSE, FALSE),
   AConst("sval", 0, <<>>, FALSE, FALSE),
   AConst("bsval", 0, <<"b", "1">>, FALSE, FALSE),
   AConst("boolval", 0, <<>>, TRUE, FALSE),
   AConst("boolval", 0, <<>>, FALSE, FALSE),
   AConst("none", 0, <<>>, FALSE, TRUE),
   AConst("none", 0, <<>>, FALSE, FALSE),
   OtherNode, NilNode}
  \cup {SqlvalueFunction(o) : o \in 0..(Len(SqlValueKeyword) + 1)}

\* The arguments of the function calls.
ExprArgs ==
  {IntConst(42), AConst("sval", 0, <<"x">>, FALSE, FALSE),
   SqlvalueFunction(4), OtherNode}

\* The expressions formatExpr is called on: the leaves, a type cast of
\* each, and function calls with and without a name of zero, one and two
\* arguments, one of them with a call as its argument.
ExprPool ==
  ExprLeaves
    \cup {TypeCast(e) : e \in ExprLeaves}
    \cup {FuncCall(f, a) : f \in {FuncNow, <<>>, <<NotAString>>},
                           a \in {<<>>} \cup {<<x>> : x \in ExprArgs}
                                 \cup {<<x, y>> : x, y \in ExprArgs}}
    \cup {FuncCall(FuncNow, <<TypeCast(FuncCall(FuncNow, <<IntConst(0)>>))>>),
          TypeCast(TypeCast(NilNode))}

Constraint(contype, rawExpr) ==
  [node |-> "Constraint", Contype |-> contype, RawExpr |-> rawExpr]

\* The column constraints: NOT NULL, NULL, PRIMARY KEY, DEFAULT 0,
\* DEFAULT now() and CHECK (...).  The grammar gives every DEFAULT an
\* expression.
ConstraintPool ==
  {Constraint("CONSTR_NOTNULL", NilNode), Constraint("CONSTR_NULL", NilNode),
   Constraint("CONSTR_PRIMARY", NilNode),
   Constraint("CONSTR_DEFAULT", IntConst(0)),
   Constraint("CONSTR_DEFAULT", FuncCall(FuncNow, <<>>)),
   Constraint("CONSTR_CHECK", OtherNode)}

\* The types: int4, pg_catalog.int4, pg_catalog.varchar, public.int4,
\* myschema.pg_catalog.INT8 and a name list that starts with a node that
\* is no string; without modifiers, with (255), (10,2), ('a') and
\* (10,'a'); with and without array bounds.
TypeNamePool ==
  [Names : {<<StrNode(<<"i","n","t","4">>)>>,
            <<StrNode(SPgCatalog), StrNode(<<"i","n","t","4">>)>>,
            <<StrNode(SPgCatalog), StrNode(<<"v","a","r","c","h","a","r">>)>>,
            <<StrNode(SPublic), StrNode(<<"i","n","t","4">>)>>,
            <<StrNode(<<"m","y">>), StrNode(SPgCatalog),
              StrNode(<<"I","N","T","8">>)>>,
            <<NotAString, StrNode(<<"b","o","o","l">>)>>},
   Typmods : {<<>>, <<IntConst(255)>>, <<IntConst(10), IntConst(2)>>,
              <<AConst("sval", 0, <<"a">>, FALSE, FALSE)>>,
              <<IntConst(10), AConst("sval", 0, <<"a">>, FALSE, FALSE)>>},
   ArrayBounds : {0, 1}]

InitColumn ==
  /\ fs = NoEntries
  /\ op = "column"
  /\ path = <<>>
  /\ out = <<>>
  /\ vin = <<>>
  /\ vhard = <<>>
  /\ vdiag = <<>>
  /\ src = <<>>
  /\ low = <<>>
  /\ pgType = <<>>
  /\ colDef \in {[node |-> "ColumnDef", Colname |-> n, TypeName |-> <<>>,
                  Constraints |-> <<>>] : n \in {<<>>, <<"i", "d">>}}
  /\ buf = <<>>

\* The column definition gets its type.
SetTypeName(typeName) ==
  /\ op = "column"
  /\ colDef.TypeName = <<>>
  /\ colDef.Constraints = <<>>
  /\ colDef' = [colDef EXCEPT !.TypeName = <<typeName>>]
  /\ UNCHANGED <<fs, op, path, out, vin, vhard, vdiag, src, low, pgType, buf>>

\* The column definition gets one more constraint.
AddConstraint(c) ==
  /\ op = "column"
  /\ Len(colDef.Constraints) < MaxConstraints
  /\ colDef' = [colDef EXCEPT !.Constraints = Append(@, c)]
  /\ UNCHANGED <<fs, op, path, out, vin, vhard, vdiag, src, low, pgType, buf>>

\* parseColumnDef(colDef)
CallParseColumnDef ==
  /\ op = "column"
  /\ op' = "parseColumnDef"
  /\ out' = parseColumnDef(colDef)
  /\ UNCHANGED <<fs, path, vin, vhard, vdiag, src, low, pgType, colDef, buf>>

\* formatExpr(node); out keeps the node with the text returned.
CallFormatExpr(n) ==
  /\ op = "column"
  /\ colDef.TypeName = <<>>
  /\ colDef.Constraints = <<>>
  /\ op' = "formatExpr"
  /\ out' = [expr |-> n, text |-> formatExpr(n)]
  /\ UNCHANGED <<fs, path, vin, vhard, vdiag, src, low, pgType, colDef, buf>>

NextColumn ==
  \/ \E typeName \in TypeNamePool : SetTypeName(typeName)
  \/ \E c \in ConstraintPool : AddConstraint(c)
  \/ CallParseColumnDef
  \/ \E n \in ExprPool : CallFormatExpr(n)

SpecColumn == InitColumn /\ [][NextColumn]_vars

----------------------------------------------------------------------------
(* The position resolver on its own: a text grows byte by byte in buf and  *)
(* byteOffsetToLineColumn is called on it with an offset from one before   *)
(* its start to one past its end.                                          *)

\* The most bytes of a text.
MaxTextLen == 5

InitText ==
  /\ fs = NoEntries
  /\ op = "text"
  /\ path = <<>>
  /\ out = <<>>
  /\ vin = <<>>
  /\ vhard = <<>>
  /\ vdiag = <<>>
  /\ src = <<>>
  /\ low = <<>>
  /\ pgType = <<>>
  /\ colDef = <<>>
  /\ buf = <<>>

\* The text grows by a byte.
AppendByte(c) ==
  /\ op = "text"
  /\ Len(buf) < MaxTextLen
  /\ buf' = Append(buf, <<c>>)
  /\ UNCHANGED <<fs, op, path, out, vin, vhard, vdiag, src, low, pgType,
                 colDef>>

\* byteOffsetToLineColumn(sql, offset); out keeps the offset with the
\* position returned.
CallByteOffsetToLineColumn(offset) ==
  /\ op = "text"
  /\ op' = "byteOffsetToLineColumn"
  /\ out' = [offset |-> offset,
             pos    |-> byteOffsetToLineColumn(Flatten(buf), offset)]
  /\ UNCHANGED <<fs, path, vin, vhard, vdiag, src, low, pgType, colDef, buf>>

NextPos ==
  \/ \E c \in {"a", "b", "\n"} : AppendByte(c)
  \/ \E offset \in (0 - 1)..(Len(buf) + 1) : CallByteOffsetToLineColumn(offset)

SpecPos == InitText /\ [][NextPos]_vars

----------------------------------------------------------------------------
(* The diagnostic of a load error on its own: the message of an error is   *)
(* put together in buf from pieces (the prefixes the loaders wrap an error *)
(* in, the external parser's message, a location written path:line:col, a  *)
(* "line N") and handed to parseErrorToDiagnostic with the input path.     *)

\* The most pieces of a message.
MaxPieces == 4

\* A location as a message writes it: fmt.Sprintf("%s:%d:%d", ...).
LocationText(l) ==
  l.File \o <<":">> \o Itoa(l.Line) \o <<":">> \o Itoa(l.Column)

\* f.lp.sql:5:1 and d/a.lp.sql:12:3
WrittenLocations ==
  {[File |-> FileF, Line |-> 5, Column |-> 1],
   [File |-> JoinPath(DirPath, NameA), Line |-> 12, Column |-> 3]}

\* ' at line 12'
AtLine12 == <<" ", "a", "t", " ">> \o ELine \o <<"1", "2">>

MessagePieces ==
  {EFailedDDL, EFailedSQL, PgSyntaxError, AtLine12, ELine, <<":", " ">>}
    \cup {LocationText(l) : l \in WrittenLocations}

InitMessage ==
  /\ fs = NoEntries
  /\ op = "message"
  /\ path \in {FileF, DirPath}
  /\ out = <<>>
  /\ vin = <<>>
  /\ vhard = <<>>
  /\ vdiag = <<>>
  /\ src = <<>>
  /\ low = <<>>
  /\ pgType = <<>>
  /\ colDef = <<>>
  /\ buf = <<>>

\* The message grows by a piece.
AppendPiece(piece) ==
  /\ op = "message"
  /\ Len(buf) < MaxPieces
  /\ buf' = Append(buf, piece)
  /\ UNCHANGED <<fs, op, path, out, vin, vhard, vdiag, src, low, pgType,
                 colDef>>

\* parseErrorToDiagnostic(err, path), err.Error() being the pieces in a row.
CallParseErrorToDiagnostic ==
  /\ op = "message"
  /\ op' = "parseErrorToDiagnostic"
  /\ out' = parseErrorToDiagnostic(Flatten(buf), path)
  /\ UNCHANGED <<fs, path, vin, vhard, vdiag, src, low, pgType, colDef, buf>>

NextMsg ==
  \/ \E piece \in MessagePieces : AppendPiece(piece)
  \/ CallParseErrorToDiagnostic

SpecMsg == InitMessage /\ [][NextMsg]_vars

----------------------------------------------------------------------------
(* The check command on a directory that was set up: no argument, one     *)
(* path, or two; --print-schema given or not; --output not given, "json",  *)
(* or another word.                                                        *)

\* lockplane check args, with the flags as given.
CallRunCheck(args, checkPrintSchema, checkOutput, ord) ==
  /\ op = "none"
  /\ op' = "runCheck"
  /\ out' = [args             |-> args,
             checkPrintSchema |-> checkPrintSchema,
             checkOutput      |-> checkOutput,
             ran |-> runCheck(fs, args, checkPrintSchema, checkOutput, ord)]
  /\ UNCHANGED <<fs, path, vin, vhard, vdiag, src, low, pgType, colDef, buf>>

NextCmd ==
  \/ \E name \in NamePool, readable \in BOOLEAN : CreateEntry(name, readable)
  \/ \E name \in NamePool, item \in ItemPool : WriteItem(name, item)
  \/ \E args \in {<<>>} \cup {<<p>> : p \in InputPaths(fs)}
                   \cup {<<p, DirPath>> : p \in InputPaths(fs)},
        checkPrintSchema \in BOOLEAN,
        checkOutput \in {<<>>, CheckText.json, <<"t", "e", "x", "t">>},
        ord \in Perms(FsKeys(fs)) :
       CallRunCheck(args, checkPrintSchema, checkOutput, ord)

SpecCmd == Init /\ [][NextCmd]_vars

----------------------------------------------------------------------------
(* Properties.                                                             *)

\* The (effective schema, table name) pair of a table, an empty schema
\* counting as "public".
PairOf(table) ==
  <<IF table.Schema = <<>> THEN SPublic ELSE table.Schema, table.Name>>

PairsOf(tables) == {PairOf(tables[i]) : i \in 1..Len(tables)}

\* The indices of the tables with the pair pr, in increasing order.
OccurrencesOf(tables, pr) ==
  SelectSeq([i \in 1..Len(tables) |-> i], LAMBDA i : PairOf(tables[i]) = pr)

\* The pairs that more than one table carries.
DuplicatedPairs(tables) ==
  {pr \in PairsOf(tables) : Len(OccurrencesOf(tables, pr)) > 1}

\* How a message names the pair pr: "<schema>.<name>" in double quotes.
KeyText(pr) == pr[1] \o <<".">> \o pr[2]

FirstWording(pr) == DTable \o Quote(KeyText(pr)) \o DFirst
DuplicateWording(pr) == DTable \o Quote(KeyText(pr)) \o DDuplicate

\* The diagnostics that name the pair pr, in the order they were emitted.
DiagnosticsOf(diags, pr) ==
  SelectSeq(diags,
            LAMBDA d : d.Message \in {FirstWording(pr), DuplicateWording(pr)})

\* The file, line and column of a table's own occurrence; a table without
\* a source location is reported at line 1, column 1 of no file.
OwnPosition(table) ==
  IF table.SourceLocation = <<>> THEN << <<>>, 1, 1 >>
  ELSE <<table.SourceLocation[1].File, table.SourceLocation[1].Line,
         table.SourceLocation[1].Column>>

PositionOf(d) == <<d.File, d.Line, d.Column>>

\* The entries a directory scan is to select, and their paths.
SelectedNames(f) ==
  {n \in DOMAIN f : /\ f[n].kind = "file"
                    /\ Len(n) >= Len(SSuffix)
                    /\ ToLower(SubSeq(n, Len(n) - Len(SSuffix) + 1, Len(n)))
                         = SSuffix}

SelectedPaths(f) == {JoinPath(DirPath, n) : n \in SelectedNames(f)}

\* The files a call on the path p is about.
CoveredNames(f, p) ==
  IF p = DirPath THEN SelectedNames(f)
  ELSE {n \in DOMAIN f : p = JoinPath(DirPath, n)}

\* The places <<name, k>> of the CREATE TABLE statements of those files
\* that carry the pair pr.
PlacesOf(f, p, pr) ==
  {<<n, k>> \in CoveredNames(f, p) \X (1..MaxStmts) :
     /\ k <= Len(f[n].items)
     /\ f[n].items[k].kind = "create"
     /\ f[n].items[k].hasRelation
     /\ PairOf([Schema |-> f[n].items[k].Schemaname,
                Name   |-> f[n].items[k].Relname]) = pr}

AllPairs ==
  {<<SPublic, IdT>>, <<SPublic, IdU>>, <<IdAB, IdT>>, <<IdA, IdBT>>}

\* The pairs defined more than once in the files a call on p is about.
DuplicatedIn(f, p) == {pr \in AllPairs : Cardinality(PlacesOf(f, p, pr)) > 1}

\* What the load stage of CheckSchema returns in the current state.
LoadStage == loadSchemaWithoutValidation(fs, path)

Diagnostics == out.report.Diagnostics
Summary == out.report.Summary

\* C1: a Schema that LoadSchema returns without error holds no two tables
\* with the same (effective schema, table name) pair.
C1_LoadedSchemaHasNoDuplicate ==
  (op = "LoadSchema" /\ out.err = <<>>) =>
    \A i, j \in 1..Len(out.val) :
      i # j => PairOf(out.val[i]) # PairOf(out.val[j])

\* LoadSchema returned a Schema of three tables from a directory of two
\* files.
C1_Witness ==
  /\ op = "LoadSchema"
  /\ path = DirPath
  /\ out.err = <<>>
  /\ Len(out.val) = 3
  /\ Len(out.reads) = 2

\* C2: LoadSchema on a directory returns the tables of the file whose path
\* is byte-wise smaller first, and the tables of one file in the order of
\* its CREATE TABLE statements.
C2_FileThenStatementOrder ==
  (op = "LoadSchema" /\ path = DirPath /\ out.err = <<>>) =>
    /\ \A i \in 1..Len(out.val) :
         OwnPosition(out.val[i])[1] \in SelectedPaths(fs)
    /\ \A i, j \in 1..Len(out.val) :
         i < j => \/ OwnPosition(out.val[i])[1] = OwnPosition(out.val[j])[1]
                  \/ StrLess(OwnPosition(out.val[i])[1],
                             OwnPosition(out.val[j])[1])
    /\ \A n \in SelectedNames(fs) :
         LET mine == SelectSeq(out.val,
                       LAMBDA t : OwnPosition(t)[1] = JoinPath(DirPath, n))
         IN  /\ Len(mine) = Len(fs[n].items)
             /\ \A k \in 1..Len(mine) :
                  /\ mine[k].Schema = fs[n].items[k].Schemaname
                  /\ mine[k].Name = fs[n].items[k].Relname

\* A directory load returned three tables, the first from B.LP.SQL and the
\* other two, in statement order, from a.lp.sql.
C2_Witness ==
  /\ op = "LoadSchema"
  /\ path = DirPath
  /\ out.err = <<>>
  /\ Len(out.val) = 3
  /\ OwnPosition(out.val[1])[1] = JoinPath(DirPath, NameB)
  /\ OwnPosition(out.val[2])[1] = JoinPath(DirPath, NameA)
  /\ OwnPosition(out.val[3])[1] = JoinPath(DirPath, NameA)
  /\ out.val[2].Name = IdU
  /\ out.val[3].Name = IdT

\* C3: ValidateDuplicateTablesAsDiagnostics emits nothing for a pair that
\* occurs once; for a pair that occurs n > 1 times it emits exactly n
\* diagnostics, in table-index order, the first worded "first occurrence",
\* the others "duplicate definition", all of severity "error", each at the
\* file, line and column of its own occurrence.
C3_DiagnosticsPerPair ==
  vdiag # <<>> =>
    \A pr \in PairsOf(vin) :
      LET occ == OccurrencesOf(vin, pr)
          ds  == DiagnosticsOf(vdiag[1], pr)
      IN  IF Len(occ) = 1 THEN ds = <<>>
          ELSE /\ Len(ds) = Len(occ)
               /\ \A k \in 1..Len(ds) :
                    /\ ds[k].Message = IF k = 1 THEN FirstWording(pr)
                                       ELSE DuplicateWording(pr)
                    /\ ds[k].Severity = "error"
                    /\ PositionOf(ds[k]) = OwnPosition(vin[occ[k]])

\* C4: for a Schema of two or more tables that share their name and have
\* pairwise different effective schemas, from one file or from the files of
\* a directory, LoadSchema returns no error and the check reports no
\* diagnostic.
C4_SameNameOtherSchema ==
  (/\ op \in {"LoadSchema", "CheckSchema"}
   /\ LoadStage.err = <<>>
   /\ Len(LoadStage.val) >= 2
   /\ \A i, j \in 1..Len(LoadStage.val) :
        i # j => /\ LoadStage.val[i].Name = LoadStage.val[j].Name
                 /\ PairOf(LoadStage.val[i])[1] # PairOf(LoadStage.val[j])[1])
  => /\ op = "LoadSchema" => out.err = <<>> /\ out.val = LoadStage.val
     /\ op = "CheckSchema" => out.validated /\ Diagnostics = <<>>

\* LoadSchema accepted a directory whose files define t and "a.b".t.
C4_Witness ==
  /\ op = "LoadSchema"
  /\ path = DirPath
  /\ out.err = <<>>
  /\ Len(out.val) = 2
  /\ out.val[1].Name = out.val[2].Name
  /\ out.val[1].Schema = <<>>
  /\ out.val[2].Schema = IdAB
  /\ OwnPosition(out.val[1])[1] # OwnPosition(out.val[2])[1]

\* The diagnostics that name the key, and the tables that carry it.
NamedBy(diags, key) ==
  {k \in 1..Len(diags) :
     diags[k].Message \in {DTable \o Quote(key) \o DFirst,
                           DTable \o Quote(key) \o DDuplicate}}

Carrying(tables, key) == {i \in 1..Len(tables) : TableKey(tables[i]) = key}

ErrorSegments == IF vhard[1] = <<>> THEN <<>> ELSE vhard[1][1].segs

ErrorKeys == {ErrorSegments[k].key : k \in 1..Len(ErrorSegments)}

LocationsIn(seg, p) ==
  {k \in 1..Len(seg.locations) :
     /\ Len(seg.locations[k]) > Len(p)
     /\ SubSeq(seg.locations[k], 1, Len(p) + 1) = p \o <<":">>}

\* C6: when LoadSchema on a directory fails because of duplicate tables,
\* the error names every pair defined more than once in the directory and
\* lists every occurrence of it, with the path of its file.
C6_DirectoryErrorListsAll ==
  (/\ op = "LoadSchema"
   /\ path = DirPath
   /\ out.err # <<>>
   /\ out.err[1].segs # <<>>)
  => \A pr \in DuplicatedIn(fs, DirPath) :
       \E s \in 1..Len(out.err[1].segs) :
         /\ out.err[1].segs[s].key = KeyText(pr)
         /\ \A n \in SelectedNames(fs) :
              Cardinality(LocationsIn(out.err[1].segs[s],
                                      JoinPath(DirPath, n)))
                >= Cardinality({pl \in PlacesOf(fs, DirPath, pr) :
                                  pl[1] = n})

\* C7: when the load stage of CheckSchema fails, CheckSchema returns a
\* report and no error, the report holds exactly one diagnostic, of
\* severity "error", errors is 1, valid is false, and the duplicate
\* validation is not run.
C7_LoadFailureReport ==
  (op = "CheckSchema" /\ LoadStage.err # <<>>) =>
    /\ out.err = <<>>
    /\ Len(Diagnostics) = 1
    /\ Diagnostics[1].Severity = "error"
    /\ Summary.Errors = 1
    /\ Summary.Valid = FALSE
    /\ ~out.validated

\* CheckSchema was called on a directory one file of which the parser
\* rejects.
C7_Witness ==
  /\ op = "CheckSchema"
  /\ path = DirPath
  /\ \E n \in SelectedNames(fs) :
       \E k \in 1..Len(fs[n].items) : fs[n].items[k].kind = "garbage"
  /\ Len(Diagnostics) = 1
  /\ ~out.validated

\* C8: in every report of CheckSchema errors is the number of diagnostics,
\* valid is true exactly when errors is 0, warnings is 0 and every
\* diagnostic has severity "error"; a schema that loads and holds no pair
\* twice yields no diagnostic, errors = 0 and valid = true.
C8_ReportSummary ==
  op = "CheckSchema" =>
    /\ Summary.Errors = Len(Diagnostics)
    /\ Summary.Valid <=> Summary.Errors = 0
    /\ Summary.Warnings = 0
    /\ \A k \in 1..Len(Diagnostics) : Diagnostics[k].Severity = "error"
    /\ (LoadStage.err = <<>> /\ DuplicatedPairs(LoadStage.val) = {}) =>
         /\ Diagnostics = <<>>
         /\ Summary.Errors = 0
         /\ Summary.Valid

C10_ScanSelection ==
  (op \in {"LoadSchema", "CheckSchema"} /\ path = DirPath) =>
    /\ \A k \in 1..Len(out.reads) : out.reads[k] \in SelectedPaths(fs)
    /\ \A k, m \in 1..Len(out.reads) : k # m => out.reads[k] # out.reads[m]
    /\ \A k \in 1..Len(out.reads) :
         \A n \in DOMAIN fs :
           out.reads[k] # JoinPath(JoinPath(DirPath, n), NestedName)
    /\ SelectedNames(fs) = {} =>
         /\ out.reads = <<>>
         /\ op = "LoadSchema" =>
              out.err # <<>> /\ out.err[1].text = ENoFiles \o DirPath
         /\ op = "CheckSchema" => ~out.validated
    /\ (op = "LoadSchema" /\ out.err = <<>>) =>
         /\ {out.reads[k] : k \in 1..Len(out.reads)} = SelectedPaths(fs)
         /\ \A i \in 1..Len(out.val) :
              OwnPosition(out.val[i])[1] \in SelectedPaths(fs)
    /\ (op = "CheckSchema" /\ out.validated) =>
         {out.reads[k] : k \in 1..Len(out.reads)} = SelectedPaths(fs)

\* LoadSchema loaded a directory that holds a schema file with an
\* upper-case suffix beside a symbolic link named like a schema file.
C10_Witness ==
  /\ op = "LoadSchema"
  /\ path = DirPath
  /\ DOMAIN fs = {NameB, NameE}
  /\ out.err = <<>>
  /\ out.reads = <<JoinPath(DirPath, NameB)>>
  /\ Len(out.val) = 1

\* The path p names an entry of the directory, and its lower-cased text
\* ends in ".lp.sql".
PathExists(f, p) == \E n \in DOMAIN f : p = JoinPath(DirPath, n)

PathHasSuffix(p) ==
  /\ Len(p) >= Len(SSuffix)
  /\ ToLower(SubSeq(p, Len(p) - Len(SSuffix) + 1, Len(p))) = SSuffix

C12_SingleFileSelection ==
  (op = "LoadSchema" /\ path # DirPath) =>
    IF PathExists(fs, path) /\ PathHasSuffix(path)
      THEN out.reads = <<path>>
      ELSE /\ out.reads = <<>>
           /\ out.err # <<>>
           /\ out.err[1].text = EDidNotFind
           /\ out.val = <<>>

\* LoadSchema refused the existing file c.sql without reading it.
C12_Witness ==
  /\ op = "LoadSchema"
  /\ path = JoinPath(DirPath, NameC)
  /\ NameC \in DOMAIN fs
  /\ out.err # <<>>
  /\ out.err[1].text = EDidNotFind
  /\ out.reads = <<>>

\* C13: whenever LoadSchema returns an error it returns no Schema.
C13_AllOrNothing ==
  (op = "LoadSchema" /\ out.err # <<>>) => out.val = <<>>

\* A directory load failed after the tables of its first file were
\* lowered.
C13_Witness ==
  /\ op = "LoadSchema"
  /\ path = DirPath
  /\ out.err # <<>>
  /\ out.val = <<>>
  /\ Len(out.reads) = 2
  /\ \E n \in SelectedNames(fs) :
       /\ out.reads[1] = JoinPath(DirPath, n)
       /\ Len(fs[n].items) >= 1
       /\ \A k \in 1..Len(fs[n].items) :
            fs[n].items[k].kind = "create" /\ fs[n].items[k].hasRelation

\* C20: LoadSchema returns an error on a path exactly when CheckSchema on
\* the same path, whatever the order its map is ranged in, reports
\* valid = false.
C20_LoadFailsIffCheckInvalid ==
  op = "LoadSchema" =>
    \A ord \in Perms(FsKeys(fs)) :
      (out.err # <<>>) <=> ~CheckSchema(fs, path, ord).report.Summary.Valid

\* LoadSchema failed on a directory for a table defined once in each of
\* its two files.
C20_Witness ==
  /\ op = "LoadSchema"
  /\ path = DirPath
  /\ out.err # <<>>
  /\ out.err[1].segs # <<>>
  /\ Len(out.reads) = 2
  /\ \A n \in SelectedNames(fs) : Len(fs[n].items) = 1

\* A table but for its row-level-security flag.
Unflagged(table) == [table EXCEPT !.RLSEnabled = FALSE]

\* The number of CREATE TABLE statements among items.
CreateCount(items) ==
  Cardinality({k \in 1..Len(items) : items[k].kind = "create"})

\* What a turn of the statement loop did to schema.Tables.
LoweredInPlace(stmt, before, after) ==
  IF stmt.kind = "create" THEN
    /\ Len(after) = Len(before) + 1
    /\ SubSeq(after, 1, Len(before)) = before
    /\ after[Len(after)].Name = stmt.Relname
    /\ after[Len(after)].Schema = stmt.Schemaname
  ELSE IF stmt.kind = "alter" THEN
    /\ Len(after) = Len(before)
    /\ \A i \in 1..Len(before) : Unflagged(after[i]) = Unflagged(before[i])
  ELSE after = before

\* C14: lowering is append-only.  The statements are lowered in the order
\* of the source; a CREATE TABLE appends exactly one table, its own, at the
\* end; no statement removes or reorders a table lowered before it; a
\* statement that is neither CREATE TABLE nor ALTER TABLE leaves the schema
\* as it is; the schema returned has as many tables as the source has
\* CREATE TABLE statements, none for an empty source, which is no error.
C14_AppendOnly ==
  [][/\ (op = "lowering" /\ op' = "lowering") =>
          /\ low'.next = low.next + 1
          /\ low.tree[low.next].stmt = src[low.next]
          /\ LoweredInPlace(src[low.next], low.Tables, low'.Tables)
     /\ (op = "source" /\ op' = "lowering") =>
          low'.next = 1 /\ low'.Tables = <<>>
     /\ (op' = "returned" /\ low'.err = <<>>) =>
          /\ low'.next = Len(src) + 1
          /\ Len(low'.Tables) = CreateCount(src)
     /\ (op' = "returned" /\ src = <<>>) =>
          low'.err = <<>> /\ low'.Tables = <<>>]_vars

\* A schema was returned for CREATE TABLE t, CREATE INDEX, CREATE TABLE u:
\* it holds t, then u.
C14_Witness ==
  /\ op = "returned"
  /\ low.err = <<>>
  /\ Len(src) = 3
  /\ src[1].kind = "create" /\ src[2].kind = "index"
  /\ src[3].kind = "create"
  /\ Len(low.Tables) = 2
  /\ low.Tables[1].Name = IdT /\ low.Tables[2].Name = IdU

\* The ENABLE and DISABLE ROW SECURITY sub-commands among cmds, in order.
RlsCmds(cmds) ==
  SelectSeq(cmds,
            LAMBDA c : /\ c.node = "AlterTableCmd"
                       /\ c.Subtype \in {"AT_EnableRowSecurity",
                                         "AT_DisableRowSecurity"})

\* The flag the sub-commands cmds leave on a table whose flag was flag.
FlagAfter(cmds, flag) ==
  IF RlsCmds(cmds) = <<>> THEN flag
  ELSE RlsCmds(cmds)[Len(RlsCmds(cmds))].Subtype = "AT_EnableRowSecurity"

\* The tables among tables whose pair is the target of the ALTER TABLE.
TargetsOf(stmt, tables) ==
  {i \in 1..Len(tables) :
     PairOf(tables[i])
       = PairOf([Schema |-> stmt.Schemaname, Name |-> stmt.Relname])}

\* The first of a non-empty set of indices.
First(S) == CHOOSE i \in S : \A j \in S : i <= j

\* C19: an ALTER TABLE statement changes nothing but the row-level-security
\* flag of the first table lowered before it whose (effective schema, name)
\* is its target, which its ENABLE and DISABLE sub-commands set and its
\* other sub-commands leave; with no such table, also when the CREATE TABLE
\* comes later in the file, it is no error and the schema is unchanged.
C19_AlterTouchesFirstMatchOnly ==
  [][(/\ op = "lowering"
      /\ low.next <= Len(low.tree)
      /\ src[low.next].kind = "alter"
      /\ src[low.next].hasRelation) =>
       LET stmt    == src[low.next]
           targets == TargetsOf(stmt, low.Tables)
       IN  /\ op' = "lowering"
           /\ low'.err = <<>>
           /\ Len(low'.Tables) = Len(low.Tables)
           /\ IF targets = {} THEN low'.Tables = low.Tables
              ELSE /\ \A i \in 1..Len(low.Tables) :
                        i # First(targets) =>
                          low'.Tables[i] = low.Tables[i]
                   /\ Unflagged(low'.Tables[First(targets)])
                        = Unflagged(low.Tables[First(targets)])
                   /\ low'.Tables[First(targets)].RLSEnabled
                        = FlagAfter(stmt.Cmds,
                            low.Tables[First(targets)].RLSEnabled)]_vars

\* A schema was returned for two CREATE TABLE t and an ALTER TABLE t ENABLE
\* ROW SECURITY after them: the first t has the flag, the second has not.
C19_Witness ==
  /\ op = "returned"
  /\ low.err = <<>>
  /\ src = <<CreateStmt(<<>>, IdT), CreateStmt(<<>>, IdT),
             AlterStmt(<<>>, IdT, <<EnableRLS>>)>>
  /\ Len(low.Tables) = 2
  /\ low.Tables[1].RLSEnabled
  /\ ~low.Tables[2].RLSEnabled

\* The place in items of the CREATE TABLE that made the i-th table.
CreatePlace(items, i) ==
  CHOOSE k \in 1..Len(items) :
    /\ items[k].kind = "create"
    /\ CreateCount(SubSeq(items, 1, k)) = i

\* The ENABLE and DISABLE sub-commands, in source order, of the ALTER TABLE
\* statements of items after place k whose target is pair.
RlsCmdsAfter(items, k, pair) ==
  Flatten([j \in 1..Len(items) |->
             IF /\ j > k
                /\ items[j].kind = "alter"
                /\ items[j].hasRelation
                /\ PairOf([Schema |-> items[j].Schemaname,
                           Name   |-> items[j].Relname]) = pair
               THEN RlsCmds(items[j].Cmds)
               ELSE <<>>])

\* The flag source order gives the i-th table of tables: false, or what
\* the last sub-command after its CREATE TABLE says.
FlagBySourceOrder(items, tables, i) ==
  LET cmds == RlsCmdsAfter(items, CreatePlace(items, i), PairOf(tables[i]))
  IN  /\ cmds # <<>>
      /\ cmds[Len(cmds)].Subtype = "AT_EnableRowSecurity"

\* The table at i is the first of tables with its pair.
FirstOfItsPair(tables, i) ==
  \A j \in 1..(i - 1) : PairOf(tables[j]) # PairOf(tables[i])

\* C18 as stated: once a source is lowered, the flag of every table is the
\* one source order gives it.
C18_FlagFollowsLastSubCommand ==
  (op = "returned" /\ low.err = <<>>) =>
    \A i \in 1..Len(low.Tables) :
      low.Tables[i].RLSEnabled = FlagBySourceOrder(src, low.Tables, i)

\* C18, amended: once a source is lowered, the row-level-security flag of a
\* table that is the first of its effective (schema, name) in the file is
\* false if no ENABLE or DISABLE sub-command of an ALTER TABLE with that
\* target comes after its CREATE TABLE, and else what the last of them in
\* source order says, an unqualified and a public.-qualified target being
\* the same; a further table of the same (schema, name) keeps false.
C18_FlagOfFirstFollowsLastSubCommand ==
  (op = "returned" /\ low.err = <<>>) =>
    \A i \in 1..Len(low.Tables) :
      low.Tables[i].RLSEnabled
        = (/\ FirstOfItsPair(low.Tables, i)
           /\ FlagBySourceOrder(src, low.Tables, i))

\* A schema was returned for CREATE TABLE t, ALTER TABLE t DISABLE and
\* ALTER TABLE public.t DISABLE, ENABLE: t has the flag.
C18_Witness ==
  /\ op = "returned"
  /\ low.err = <<>>
  /\ src = <<CreateStmt(<<>>, IdT),
             AlterStmt(<<>>, IdT, <<DisableRLS>>),
             AlterStmt(SPublic, IdT, <<NilNode, DisableRLS, EnableRLS>>)>>
  /\ Len(low.Tables) = 1
  /\ low.Tables[1].RLSEnabled

\* The file named n of f holds an ALTER TABLE with target pair whose
\* sub-commands end in the ENABLE (enable = TRUE) or DISABLE (FALSE) of
\* row security.
AltersIn(f, n, pair, enable) ==
  \E k \in 1..Len(f[n].items) :
    /\ f[n].items[k].kind = "alter"
    /\ f[n].items[k].hasRelation
    /\ PairOf([Schema |-> f[n].items[k].Schemaname,
               Name   |-> f[n].items[k].Relname]) = pair
    /\ RlsCmds(f[n].items[k].Cmds) # <<>>
    /\ FlagAfter(f[n].items[k].Cmds, ~enable) = enable

\* C17: after LoadSchema on a directory, a table created by one file has
\* its row-level-security flag true when a file that sorts later enables
\* row security on it and no file disables it.
C17_LaterFileEnables ==
  (op = "LoadSchema" /\ path = DirPath /\ out.err = <<>>) =>
    \A i \in 1..Len(out.val) :
      (/\ \E n \in SelectedNames(fs) :
            /\ StrLess(OwnPosition(out.val[i])[1], JoinPath(DirPath, n))
            /\ AltersIn(fs, n, PairOf(out.val[i]), TRUE)
       /\ \A n \in SelectedNames(fs) :
            ~AltersIn(fs, n, PairOf(out.val[i]), FALSE))
        => out.val[i].RLSEnabled

\* Two characters are the same letter in either case, or the same
\* character.
SameIgnoringCase(a, b) ==
  \/ a = b
  \/ /\ Byte[a] >= 65 /\ Byte[a] <= 90 /\ Byte[b] = Byte[a] + 32
  \/ /\ Byte[b] >= 65 /\ Byte[b] <= 90 /\ Byte[a] = Byte[b] + 32

\* Two names of the same length are equal character by character but for
\* letter case.
EqualFold(a, b) ==
  /\ Len(a) = Len(b)
  /\ \A i \in 1..Len(a) : SameIgnoringCase(a[i], b[i])

\* The names "int8", "timestamptz" and "bool" and their canonical names.
SInt8        == <<"i","n","t","8">>
SBigint      == <<"b","i","g","i","n","t">>
STimestamptz == <<"t","i","m","e","s","t","a","m","p","t","z">>
STimestampWithTimeZone ==
  <<"t","i","m","e","s","t","a","m","p"," ","w","i","t","h"," ",
    "t","i","m","e"," ","z","o","n","e">>
SBool        == <<"b","o","o","l">>
SBoolean     == <<"b","o","o","l","e","a","n">>

\* C15: the type normalizer maps a name that equals a key of its table but
\* for letter case to the canonical name of that key (int8 and INT8 to
\* bigint, timestamptz to timestamp with time zone, bool to boolean), and
\* returns a name that equals no key, such as a key with a character more
\* or less, as it was given, in its own letter case.
C15_NormalizeByFoldedKey ==
  op = "normalizePostgreSQLType" =>
    /\ \A k \in 1..Len(typeMap) :
         EqualFold(typeMap[k][1], pgType) => out = typeMap[k][2]
    /\ (\A k \in 1..Len(typeMap) : ~EqualFold(typeMap[k][1], pgType))
         => out = pgType
    /\ EqualFold(pgType, SInt8) => out = SBigint
    /\ EqualFold(pgType, STimestamptz) => out = STimestampWithTimeZone
    /\ EqualFold(pgType, SBool) => out = SBoolean

\* INT8 was normalized to bigint.
C15_Witness ==
  /\ op = "normalizePostgreSQLType"
  /\ pgType = <<"I","N","T","8">>
  /\ out = SBigint

\* C16: the check command with one positional argument, --print-schema and
\* --output json exits with status 1 after writing the usage error of
\* conflicting flags to the error stream; it calls neither LoadSchema nor
\* CheckSchema, reads no file, and writes neither a schema nor a report,
\* nor anything else, to the output stream.
C16_ConflictingFlags ==
  (/\ op = "runCheck"
   /\ Len(out.args) = 1
   /\ out.checkPrintSchema
   /\ out.checkOutput = <<"j", "s", "o", "n">>) =>
    /\ out.ran.exit = 1
    /\ Len(out.ran.stderr) = 3
    /\ out.ran.stderr[1] = Text(CheckText.conflict)
    /\ out.ran.stdout = <<>>
    /\ out.ran.calls = <<>>
    /\ out.ran.reads = <<>>

\* The command was run with both flags on a schema file that holds one
\* CREATE TABLE, as the test of the command does, and exited with 1.
C16_Witness ==
  /\ op = "runCheck"
  /\ out.args = <<JoinPath(DirPath, NameA)>>
  /\ out.checkPrintSchema
  /\ out.checkOutput = <<"j", "s", "o", "n">>
  /\ NameA \in DOMAIN fs
  /\ fs[NameA].readable
  /\ fs[NameA].items = <<CreateStmt(<<>>, IdT)>>
  /\ out.ran.exit = 1
  /\ out.ran.calls = <<>>

\* C21: both forms of the duplicate check put two tables under one key
\* exactly when their effective schemas are equal and their names are
\* equal, and tables whose (effective schema, name) pairs all differ are
\* not reported as duplicates, by the error or by a diagnostic, also when
\* an identifier holds a '.'.
C21_KeyIsThePair ==
  (vhard # <<>> /\ vdiag # <<>>) =>
    /\ \A i, j \in 1..Len(vin) :
         (TableKey(vin[i]) = TableKey(vin[j]))
           <=> (PairOf(vin[i]) = PairOf(vin[j]))
    /\ DuplicatedPairs(vin) = {} => (vhard[1] = <<>> /\ vdiag[1] = <<>>)
    /\ \A s \in 1..Len(ErrorSegments) :
         \A i, j \in Carrying(vin, ErrorSegments[s].key) :
           PairOf(vin[i]) = PairOf(vin[j])

\* C30: the type normalizer is idempotent: the name it returned is
\* returned as it is when normalized again, and no canonical name of the
\* table is a key with another canonical name.
C30_NormalizeIdempotent ==
  op = "normalizePostgreSQLType" =>
    /\ normalizePostgreSQLType(normalizePostgreSQLType(pgType)) = out
    /\ normalizePostgreSQLType(out) = out
    /\ \A k, m \in 1..Len(typeMap) :
         typeMap[k][2] = typeMap[m][1] => typeMap[m][2] = typeMap[k][2]

\* serial4 was normalized to serial, which is itself a key of the table.
C30_Witness ==
  /\ op = "normalizePostgreSQLType"
  /\ pgType = <<"s","e","r","i","a","l","4">>
  /\ out = <<"s","e","r","i","a","l">>
  /\ \E m \in 1..Len(typeMap) : typeMap[m][1] = out

\* The Schema a call returned or, for CheckSchema, the one its loader
\* returned: its tables, none when the load failed.
TablesLoaded ==
  IF op = "LoadSchema" THEN out.val
  ELSE IF op = "CheckSchema" THEN LoadStage.val
  ELSE <<>>

\* How many of the first i tables come from the file of the table at i.
RankInFile(tables, i) ==
  Cardinality({j \in 1..i :
                 OwnPosition(tables[j])[1] = OwnPosition(tables[i])[1]})

\* The CREATE TABLE statement in the files f that made the table at i.
StatementOf(f, tables, i) ==
  LET n == CHOOSE m \in DOMAIN f :
             JoinPath(DirPath, m) = OwnPosition(tables[i])[1]
  IN  f[n].items[CreatePlace(f[n].items, RankInFile(tables, i))]

\* C29: the schema stored on a table that LoadSchema or the loader of the
\* check pipeline returns is the qualifier of its CREATE TABLE statement as
\* written: empty for a table created without a qualifier, whatever
\* duplicate validation and ALTER TABLE statements, which compare under
\* "public", came after it, and "public" for a table created as public.t.
C29_SchemaStoredAsWritten ==
  \A i \in 1..Len(TablesLoaded) :
    /\ \E m \in DOMAIN fs :
         JoinPath(DirPath, m) = OwnPosition(TablesLoaded[i])[1]
    /\ TablesLoaded[i].Name = StatementOf(fs, TablesLoaded, i).Relname
    /\ TablesLoaded[i].Schema = StatementOf(fs, TablesLoaded, i).Schemaname

\* LoadSchema returned a table created without a qualifier that a later
\* ALTER TABLE public.t enabled row security on: its schema is empty.
C29_Witness ==
  /\ op = "LoadSchema"
  /\ out.err = <<>>
  /\ Len(out.val) = 1
  /\ out.val[1].Schema = <<>>
  /\ out.val[1].RLSEnabled
  /\ \E n \in DOMAIN fs :
       fs[n].items = <<CreateStmt(<<>>, IdT),
                       AlterStmt(SPublic, IdT, <<EnableRLS>>)>>

\* The keys that more than one table of tables carries.
DuplicateKeys(tables) ==
  {key \in SeenKeys(tables) : Cardinality(Carrying(tables, key)) > 1}

\* The indices of the tables that carry key, in increasing order; those of
\* them that have a source location.
IndicesOf(tables, key) ==
  SelectSeq([i \in 1..Len(tables) |-> i],
            LAMBDA i : TableKey(tables[i]) = key)

LocatedIndicesOf(tables, key) ==
  SelectSeq(IndicesOf(tables, key),
            LAMBDA i : tables[i].SourceLocation # <<>>)

\* How an occurrence is listed: file:line:column, or "line N" when it has
\* no file.
PlaceText(table) ==
  IF OwnPosition(table)[1] # <<>>
    THEN OwnPosition(table)[1] \o <<":">> \o Itoa(OwnPosition(table)[2])
           \o <<":">> \o Itoa(OwnPosition(table)[3])
    ELSE ELine \o Itoa(OwnPosition(table)[2])

\* The segment of key that lists the occurrences at indices.
ListingSegment(tables, key, indices) ==
  ETable \o Quote(key) \o EMultipleAt
    \o Join([k \in 1..Len(indices) |-> PlaceText(tables[indices[k]])],
            <<",", " ">>)

\* text is the segments Segment(key) of the keys, in some order of the
\* keys, joined with "; ".
JoinedInSomeOrder(text, keys, Segment(_)) ==
  \E ord \in Perms(keys) :
    text = Join([k \in 1..Len(ord) |-> Segment(ord[k])], <<";", " ">>)

----------------------------------------------------------------------------
(* Column constraints (SpecColumn).                                        *)

\* The column parseColumnDef returned.
ColumnLowered == op = "parseColumnDef" /\ out.err = <<>>

\* The place of the last constraint of one of the kinds, 0 when there is
\* none.
LastOfKinds(constraints, kinds) ==
  LET at == {i \in 1..Len(constraints) : constraints[i].Contype \in kinds}
  IN  IF at = {} THEN 0 ELSE CHOOSE i \in at : \A j \in at : j <= i

NullabilityKinds == {"CONSTR_NOTNULL", "CONSTR_NULL", "CONSTR_PRIMARY"}

\* C22: every lowered column whose primary-key flag is set is
\* non-nullable, and a lowered column is nullable only if its definition
\* carries neither a NOT NULL nor a PRIMARY KEY constraint, whatever the
\* order of the constraints.
C22_KeyColumnsNotNullable ==
  ColumnLowered =>
    /\ out.val.IsPrimaryKey => ~out.val.Nullable
    /\ out.val.Nullable =>
         \A i \in 1..Len(colDef.Constraints) :
           colDef.Constraints[i].Contype
             \notin {"CONSTR_NOTNULL", "CONSTR_PRIMARY"}

----------------------------------------------------------------------------
(* Expression formatter and type rendering (SpecColumn).                   *)

\* A node that is none of the formatter's recognized cases.
Unrecognized(n) ==
  \/ n.node \in {"nil", "other"}
  \/ n.node = "AConst" /\ n.tag = "none" /\ ~n.isnull
  \/ n.node = "FuncCall" /\ (n.Funcname = <<>> \/ ~n.Funcname[1].isString)
  \/ n.node = "TypeCast" /\ n.Arg.node = "nil"
  \/ n.node = "SqlvalueFunction" /\ n.Op \notin 1..Len(SqlValueKeyword)

SVarchar == <<"v","a","r","c","h","a","r">>
SInteger == <<"i","n","t","e","g","e","r">>
SInt4    == <<"i","n","t","4">>

\* The name parts of a type and its integer modifiers, in order.
NameParts(typeName) ==
  LET strs == SelectSeq(typeName.Names, LAMBDA n : n.isString)
  IN  [i \in 1..Len(strs) |-> strs[i].Sval]

IntegerModifiers(typeName) ==
  LET ints == SelectSeq(typeName.Typmods,
                LAMBDA m : m.node = "AConst" /\ m.tag = "ival")
  IN  [i \in 1..Len(ints) |-> Itoa(ints[i].ival)]

----------------------------------------------------------------------------
(* Position resolver (SpecPos).                                            *)

\* The newline bytes among the first offset bytes of the text.
NewlinesBefore(text, offset) == {i \in 1..offset : text[i] = "\n"}

\* The count of bytes up to and including the last of them, 0 without one.
LastNewline(text, offset) ==
  IF NewlinesBefore(text, offset) = {} THEN 0
  ELSE CHOOSE i \in NewlinesBefore(text, offset) :
         \A j \in NewlinesBefore(text, offset) : j <= i

\* C26: for an offset from 0 to the length of the text the resolver
\* returns line = 1 + the number of newline bytes before the offset and
\* column = 1 + the number of bytes between the last such newline (or the
\* start of the text) and the offset; for a negative offset and for one
\* greater than the length it returns (1, 1); the line and the column are
\* always at least 1.
C26_LineAndColumn ==
  op = "byteOffsetToLineColumn" =>
    LET text == Flatten(buf)
        o    == out.offset
    IN  /\ (o >= 0 /\ o <= Len(text)) =>
             /\ out.pos[1] = 1 + Cardinality(NewlinesBefore(text, o))
             /\ out.pos[2] = 1 + (o - LastNewline(text, o))
        /\ (o < 0 \/ o > Len(text)) => out.pos = <<1, 1>>
        /\ out.pos[1] >= 1
        /\ out.pos[2] >= 1

\* The resolver has been called on a text of two lines with an offset in
\* the second line, after a byte of it: line 2, column 2.
C26_Witness ==
  /\ op = "byteOffsetToLineColumn"
  /\ Flatten(buf) = <<"a", "\n", "b", "a">>
  /\ out.offset = 3
  /\ out.pos = <<2, 2>>

----------------------------------------------------------------------------
(* Diagnostic of a load error (SpecMsg).                                   *)

LocationTexts == {LocationText(l) : l \in WrittenLocations}

\* The first location written in the message, as it was put in.
FirstLocation ==
  LET at == {i \in 1..Len(buf) : buf[i] \in LocationTexts}
      i  == CHOOSE a \in at : \A b \in at : a <= b
  IN  CHOOSE l \in WrittenLocations : LocationText(l) = buf[i]

HasLocation == \E i \in 1..Len(buf) : buf[i] \in LocationTexts
HasLineN == \E i \in 1..Len(buf) : buf[i] = AtLine12

\* C24: the diagnostic of a load error has the severity "error"; when the
\* message holds a path:line:col its file is exactly that path and its
\* line and column are those numbers; otherwise, when it holds "line N",
\* it points at line N, column 1 of the input path; otherwise it points at
\* line 1, column 1 of the input path and carries the whole message.
C24_DiagnosticOfLoadError ==
  op = "parseErrorToDiagnostic" =>
    /\ out.Severity = "error"
    /\ HasLocation =>
         /\ out.File = FirstLocation.File
         /\ out.Line = FirstLocation.Line
         /\ out.Column = FirstLocation.Column
    /\ (~HasLocation /\ HasLineN) =>
         /\ out.File = path
         /\ out.Line = 12
         /\ out.Column = 1
    /\ (~HasLocation /\ ~HasLineN) =>
         /\ out.File = path
         /\ out.Line = 1
         /\ out.Column = 1
         /\ out.Message = Flatten(buf)


====
